---- MODULE Spec2Model ----
(***************************************************************************)
(* State-machine model of the SocketClaude server: the session engine      *)
(* (server/src/claude-session.ts, class ClaudeSession) and the             *)
(* per-connection message handler that drives it (server/src/index.ts).    *)
(*                                                                         *)
(* Node runs every handler and every loop iteration to its next await      *)
(* without interruption, so one action is one such run.                    *)
(***************************************************************************)
EXTENDS Integers, Sequences, FiniteSets, TLC

\* ------------------------------------------------------------------ bounds
MaxQuestions == 2      \* questions issued per engine (questionCounter cap)
MaxDeltas == 2         \* text deltas streamed within one turn
MaxInject == 1         \* injected turns not yet consumed by the provider
MaxTasks == 1          \* task ids a client can ask to stop
MaxOutLen == 801       \* length of the longest tool output
MaxFails == 7           \* consecutive failures counted (the delay stops growing at 6)
MaxTextLen == 2        \* code units of the longest plaintext
MaxUses == 2           \* tool_use blocks in one assistant message
MaxPlugins == 2        \* plugins loaded into the server
MaxLoads == 3          \* runs of the server start-up and of the setup script, each
MaxResets == 1         \* runs of the installer with its pairing reset
MaxTokens == 1         \* the largest token count a usage field reports
MaxUsageEvents == 3    \* message_start and message_delta events within one query
MaxLogLen == 2         \* bytes one shell command writes to the live-output file

\* --------------------------------------------------------- program constants
CHUNK_THRESHOLD == 500 \* tool outputs longer than this are sent in chunks
CHUNK_SIZE == 200      \* characters per chunk
InitialDelay == 1000   \* reconnectDelay at construction and after an open
MaxDelay == 30000      \* the cap of the reconnect backoff

\* ------------------------------------------------------------ value spaces
Engines == {"e1", "e2"}          \* ClaudeSession instances that can be created
Conns == {"c1", "c2"}            \* client connections (one handler each)
NoEngine == "none"               \* activeSession === null
NoId == ""                       \* sessionId === null, rendered as ""
Sink == "sink"                   \* the no-op transport of detachWebSocket
Transports == Conns \cup {Sink}
Texts == {<<"p">>}               \* prompt texts a client can submit
DeltaTexts == {<<"a">>, <<"b">>} \* text_delta payloads
NoText == <<>>
Tools == {"none", "ask", "bash"}  \* the tool_use block an assistant turn can carry
AskTools == {"none", "ask"}       \* ... in the specifications about questions
PlanTools == {"none", "plan"}     \* ... in the specification about plan approval
InteractiveTools == {"ask", "plan"}  \* the tool calls canUseTool turns into questions
BashTools == {"none", "bash"}     \* ... in the specifications about tool output
QIds == 1..MaxQuestions
TaskIds == 1..MaxTasks
Relay == "relay"                 \* the relay tunnel's virtual transport
Keys == {"k1", "k2"}             \* public keys a peer can present
NoKey == "nokey"                 \* phonePublicKey === null; a frame without pubkey
NoFrame == [type |-> "none"]

\* What an inbound text holds: a control message, text that is not JSON, the
\* JSON value null, or a JSON object whose type no case of the switch names.
Bodies == {"json", "text", "null", "unknown"}

\* What the broker socket can deliver: text that is not JSON, the broker's
\* control frames, a key exchange (with or without a pubkey), an envelope sealed
\* by the holder of key `by` (intact or not, around any body), and a JSON frame
\* of no known type.
Frames ==
  {[type |-> t] : t \in {"garbage", "peer_connected", "peer_disconnected", "unknown"}}
  \cup {[type |-> "key_exchange", pubkey |-> k] : k \in Keys \cup {NoKey}}
  \cup {[type |-> "encrypted", by |-> k, seal |-> x, body |-> b] :
          k \in Keys, x \in {"good", "corrupt"}, b \in Bodies}

\* A tool output of n characters; the character at position i is written i.
Output(n) == [i \in 1..n |-> i]
ShortOutputs == {Output(1)}
AllOutputs == {Output(n) : n \in 0..MaxOutLen}

\* The id the provider confirms for a conversation that engine e starts fresh.
NewIdOf(e) == IF e = "e1" THEN "s1" ELSE "s2"
SessionIds == {NewIdOf(e) : e \in Engines}

VARIABLES
  \* ---- ClaudeSession fields
  born,              \* the instance has been constructed
  sessionId,         \* this.sessionId
  pendingQuestions,  \* this.pendingQuestions: Map in insertion order
  abortController,   \* "null" | "armed" | "aborted"
  activeQuery,       \* this.activeQuery !== null
  questionCounter,   \* this.questionCounter
  isRunning,         \* this._isRunning
  streamingText,     \* this._streamingText
  ws,                \* this.ws: the transport the engine sends on
  resumeHint,        \* the _resumeSessionId expando set by resume_session
  \* ---- one runQuery invocation (its locals and position)
  pc,                \* "idle" | "init" | "turn" | "tools" | "asking" | "allowed" |
                     \* "final" | "result"
  depth,             \* runQuery invocations entered and not yet returned
  promptText,        \* prompt
  resumeArg,         \* resumeSessionId
  promptLogged,      \* promptLogged
  curTool,           \* the tool_use block of the turn being executed
  \* ---- the provider's query object and subprocess
  closes,            \* close() calls received by the engine's current query
  turnText,          \* the text the provider has streamed in the current turn
  input,             \* turns handed over by streamInput, not yet consumed
  askId,             \* the question id a suspended canUseTool call awaits, or 0
  \* ---- connection handlers and process-wide registries
  activeSession,     \* the handler's activeSession
  sockOpen,          \* transport.readyState === OPEN
  polling,           \* a checkAndRegister interval of this handler is active
  starter,           \* the handler whose prompt started the engine's query
  activeSessions,    \* the registry: session id -> engine (NoEngine if absent)
  sessions,          \* ids that have a record in the session store
  \* ---- ClaudeSession: background work
  activeBashStream,  \* this._activeBashStream !== null (a watcher interval runs)
  stoppedTasks,      \* this._stoppedTasks
  stopRequests,      \* stopTask calls made on the provider, per task id
  \* ---- fork and clear
  forkFrom,          \* this._forkFromSessionId
  replaces,          \* this.replacesSessionId
  cleared,           \* the handler module's clearedSessions
  qFork,             \* the forkSession option of the engine's current query
  qResume,           \* the resume option of the engine's current query
  forkedOf,          \* the argument of the setForkSource call made on the instance
  \* ---- RelayClient, its socket to the broker, and the handler module's wiring
  rStatus,           \* this.status
  rKey,              \* this.phonePublicKey, NoKey for null
  rWs,               \* this.ws !== null
  rSock,             \* the socket made by the last connect(): "none" | "connecting" |
                     \* "open" | "closing" (closed by us while open: frames still
                     \* arrive) | "aborted" (closed by us before it opened)
  rVirtOpen,         \* virtualWs.readyState === OPEN
  rClosed,           \* this.closed
  rTimers,           \* reconnect timers that are armed and have not fired
  rTimerDelay,       \* the delay the last setTimeout call was given
  rFails,            \* scheduleReconnect calls since the last open event, up to MaxFails
  rAttempt,          \* flips each time connect() goes on to make a socket
  rPeer,             \* the broker reported a peer on this socket, and no disconnect since
  rDelay,            \* this.reconnectDelay
  rHandler,          \* relayConnectionHandler !== null
  ackSent,           \* an acknowledgment went out since the stored key was set
  rFrame,            \* the frame the last step received from the broker
  wire,              \* frames the last step wrote to the broker socket, in order
  inbox,             \* messages the last step handed to onMessage
  \* ---- relay-crypto: one message sealed and opened
  boxMsg,            \* the plaintext handed to encrypt, a sequence of UTF-16 code units
  boxFrom,           \* the owner of the secret key encrypt is given
  boxTo,             \* the owner of the public key encrypt is given
  boxEnv,            \* the envelope as it reaches decrypt
  boxWith,           \* the owners of the public and the secret key decrypt is given
  boxOut,            \* what decrypt returned or threw
  boxPhase,          \* "input" | "sealed" | "opened"
  \* ---- the key pair file relay-keys.json
  kfPair,            \* the key pair in the file, 0 when there is no file
  kfMode,            \* the file's permission bits, "none" when there is no file
  kfWrites,          \* writeFileSync calls on the file so far
  kfResets,          \* removals of the file by the installer
  keyGot,            \* for each component, the key pair its last run ended up with
  keyRuns,           \* for each component, its runs so far
  \* ---- the canUseTool call of the current tool use
  askInput,          \* the input argument of the call, "none" outside a call
  pluginResults,     \* what each plugin's interceptor returns to this call
  consulted,         \* the plugins whose interceptor the call has run, in order
  decision,          \* what the call returned, NoDecision while it has not
  \* ---- tool uses of an assistant message with several tool_use blocks
  openUses,          \* the blocks (by position) whose tool_result has not arrived
  useTools,          \* block.name of each tool_use block of the last such message
  watchOf,           \* the block whose tool_use started the live watcher, 0 for none
  \* ---- the live-output file and the watcher's state object
  liveLog,           \* /tmp/claude-bash-live.log: its bytes, in order
  wrote,             \* bytes the engine's current shell command has written so far
  hooked,            \* the PreToolUse hook of the current shell command has run
  lastSize,          \* state.lastSize of the engine's watcher
  watchPath,         \* state.filePath: "none" | "live" | "out"
  forwarded,         \* contents the engine's watcher has sent since it was started
  \* ---- background tasks
  taskIdToToolUseId, \* this._taskIdToToolUseId, as a set of <<provider id, tool-use id>>
  sdkTaskId,         \* the id the last activeQuery.stopTask call was given, 0 for none
  \* ---- runQuery's usage locals
  lastTurnUsage,     \* lastTurnInputTokens, lastTurnOutputTokens, lastTurnCacheReadTokens,
                     \* lastTurnCacheCreateTokens
  usageEvents,       \* the message_start / message_delta events of the invocation so far
  resultUsage,       \* usageInfo of the result event the invocation sent last
  \* ---- what the last step did
  lastOp,            \* the operation the last step executed
  sends,             \* send() calls of the last step, in order
  storeCalls         \* session-store calls of the last step, in order

engineVars == <<born, sessionId, pendingQuestions, abortController, activeQuery,
                questionCounter, isRunning, streamingText, ws, resumeHint>>
loopVars == <<pc, depth, promptText, resumeArg, promptLogged, curTool>>
providerVars == <<closes, turnText, input, askId>>
handlerVars == <<activeSession, sockOpen, polling, starter, activeSessions, sessions>>
stepVars == <<lastOp, sends, storeCalls>>
toolVars == <<activeBashStream, stoppedTasks, stopRequests>>
forkVars == <<forkFrom, replaces, cleared, qFork, qResume, forkedOf>>
relayVars == <<rStatus, rKey, rWs, rSock, rVirtOpen, rClosed, rTimers, rTimerDelay, rFails,
               rAttempt, rPeer, rDelay, rHandler,
               ackSent, rFrame, wire, inbox>>
cryptoVars == <<boxMsg, boxFrom, boxTo, boxEnv, boxWith, boxOut, boxPhase>>
keyFileVars == <<kfPair, kfMode, kfWrites, kfResets, keyGot, keyRuns>>
permVars == <<askInput, pluginResults, consulted, decision>>
useVars == <<openUses, useTools, watchOf>>
fileVars == <<liveLog, wrote, hooked>>
pollVars == <<lastSize, watchPath, forwarded>>
bgVars == <<taskIdToToolUseId, sdkTaskId>>
tailVars == <<fileVars, pollVars, bgVars>>
otherVars == <<cryptoVars, keyFileVars, useVars, tailVars>>
usageVars == <<lastTurnUsage, usageEvents, resultUsage>>
sideVars == <<otherVars, permVars, usageVars>>
vars == <<engineVars, loopVars, providerVars, handlerVars, stepVars, toolVars, forkVars,
          relayVars, sideVars>>

\* ----------------------------------------------------------------- helpers
Op(name, c, e, q) == [op |-> name, conn |-> c, eng |-> e, qid |-> q, arg |-> "none"]

\* A ServerMessage as far as the properties read it.
Msg(type, sid, text, q) == [type |-> type, sid |-> sid, text |-> text, qid |-> q]

TransportOpen(t) == IF t = Sink THEN FALSE ELSE sockOpen[t]

\* One send() call: the frame reaches the wire only if the transport is open.
Send(from, t, m) ==
  <<[from |-> from, to |-> t, delivered |-> TransportOpen(t), msg |-> m]>>

StoreCall(fn, sid, role, text, q) ==
  [fn |-> fn, sid |-> sid, role |-> role, text |-> text, qid |-> q]

\* appendHistory when the session id is known, nothing otherwise.
AppendIfId(sid, role, text, q) ==
  IF sid # NoId THEN <<StoreCall("appendHistory", sid, role, text, q)>> ELSE <<>>

RECURSIVE SeqFilterOut(_, _)
SeqFilterOut(s, q) ==
  IF s = <<>> THEN <<>>
  ELSE IF Head(s).questionId = q THEN SeqFilterOut(Tail(s), q)
       ELSE <<Head(s)>> \o SeqFilterOut(Tail(s), q)

PendingIds(e) == {pendingQuestions[e][i].questionId : i \in DOMAIN pendingQuestions[e]}

\* Map.set: replaces the value of an existing key in place, else appends.
MapSet(m, entry) ==
  IF \E i \in DOMAIN m : m[i].questionId = entry.questionId
  THEN [i \in DOMAIN m |-> IF m[i].questionId = entry.questionId THEN entry ELSE m[i]]
  ELSE Append(m, entry)

\* Map.delete
MapDelete(m, q) == SeqFilterOut(m, q)

RECURSIVE Replay(_, _, _)
Replay(e, t, m) ==
  IF m = <<>> THEN <<>>
  ELSE Send(e, t, Head(m).questionData) \o Replay(e, t, Tail(m))

FreeEngines == {e \in Engines : ~born[e]}
\* new ClaudeSession(...): the instances are handed out in a fixed order.
FreshEngine == IF "e1" \in FreeEngines THEN "e1" ELSE "e2"

\* ------------------------------------------------------------------- Init
InitBase ==
  /\ born = [e \in Engines |-> FALSE]
  /\ sessionId = [e \in Engines |-> NoId]
  /\ pendingQuestions = [e \in Engines |-> <<>>]
  /\ abortController = [e \in Engines |-> "null"]
  /\ activeQuery = [e \in Engines |-> FALSE]
  /\ questionCounter = [e \in Engines |-> 0]
  /\ isRunning = [e \in Engines |-> FALSE]
  /\ streamingText = [e \in Engines |-> NoText]
  /\ ws = [e \in Engines |-> Sink]
  /\ resumeHint = [e \in Engines |-> NoId]
  /\ pc = [e \in Engines |-> "idle"]
  /\ depth = [e \in Engines |-> 0]
  /\ promptText = [e \in Engines |-> NoText]
  /\ resumeArg = [e \in Engines |-> NoId]
  /\ promptLogged = [e \in Engines |-> FALSE]
  /\ curTool = [e \in Engines |-> "none"]
  /\ turnText = [e \in Engines |-> NoText]
  /\ closes = [e \in Engines |-> 0]
  /\ input = [e \in Engines |-> <<>>]
  /\ askId = [e \in Engines |-> 0]
  /\ activeSession = [c \in Conns |-> NoEngine]
  /\ sockOpen = [c \in Conns |-> TRUE]
  /\ polling = [c \in Conns |-> FALSE]
  /\ starter = [e \in Engines |-> "c1"]
  /\ activeSessions = [s \in SessionIds |-> NoEngine]
  /\ sessions = {}
  /\ activeBashStream = [e \in Engines |-> FALSE]
  /\ stoppedTasks = [e \in Engines |-> {}]
  /\ stopRequests = [e \in Engines |-> [t \in TaskIds |-> 0]]
  /\ forkFrom = [e \in Engines |-> NoId]
  /\ replaces = [e \in Engines |-> NoId]
  /\ cleared = {}
  /\ qFork = [e \in Engines |-> FALSE]
  /\ qResume = [e \in Engines |-> NoId]
  /\ forkedOf = [e \in Engines |-> NoId]
  /\ rStatus = "disconnected"
  /\ rKey = NoKey
  /\ rWs = FALSE
  /\ rSock = "none"
  /\ rVirtOpen = FALSE
  /\ rClosed = FALSE
  /\ rTimers = 0
  /\ rTimerDelay = 0
  /\ rFails = 0
  /\ rAttempt = 0
  /\ rPeer = FALSE
  /\ rDelay = InitialDelay
  /\ rHandler = FALSE
  /\ ackSent = FALSE
  /\ rFrame = NoFrame
  /\ wire = <<>>
  /\ inbox = <<>>
  /\ lastOp = Op("init", "c1", NoEngine, 0)
  /\ sends = <<>>
  /\ storeCalls = <<>>

\* No message has been handed to encrypt.
NoEnvelope == [shape |-> "none", key |-> {}, data |-> <<>>, intact |-> TRUE]
NoOutcome == [kind |-> "none", text |-> <<>>]
InitCrypto ==
  /\ boxMsg = <<>>
  /\ boxFrom = "A"
  /\ boxTo = "A"
  /\ boxEnv = NoEnvelope
  /\ boxWith = <<"A", "A">>
  /\ boxOut = NoOutcome
  /\ boxPhase = "idle"

\* The two programs that load or create the key pair file.
Components == {"server", "setup"}

\* A fresh installation: no key pair file.
InitKeyFile ==
  /\ kfPair = 0
  /\ kfMode = "none"
  /\ kfWrites = 0
  /\ kfResets = 0
  /\ keyGot = [p \in Components |-> 0]
  /\ keyRuns = [p \in Components |-> 0]

\* A canUseTool call that has not returned.
NoDecision == [behavior |-> "none", input |-> "none", answers |-> "none"]

\* No canUseTool call is open.
InitPerm ==
  /\ askInput = [e \in Engines |-> "none"]
  /\ pluginResults = [e \in Engines |-> <<>>]
  /\ consulted = [e \in Engines |-> <<>>]
  /\ decision = [e \in Engines |-> NoDecision]

\* No assistant message has come.
InitUses ==
  /\ openUses = [e \in Engines |-> {}]
  /\ useTools = [e \in Engines |-> <<>>]
  /\ watchOf = [e \in Engines |-> 0]

\* The live-output file is empty, no watcher exists, no task is mapped.
InitTail ==
  /\ liveLog = <<>>
  /\ wrote = [e \in Engines |-> 0]
  /\ hooked = [e \in Engines |-> FALSE]
  /\ lastSize = [e \in Engines |-> 0]
  /\ watchPath = [e \in Engines |-> "none"]
  /\ forwarded = [e \in Engines |-> <<>>]
  /\ taskIdToToolUseId = [e \in Engines |-> {}]
  /\ sdkTaskId = [e \in Engines |-> 0]

\* let lastTurnInputTokens = 0; ... (and no result sent)
NoUsage == [input |-> 0, output |-> 0, cacheRead |-> 0, cacheCreate |-> 0]

InitUsage ==
  /\ lastTurnUsage = [e \in Engines |-> NoUsage]
  /\ usageEvents = [e \in Engines |-> <<>>]
  /\ resultUsage = [e \in Engines |-> NoUsage]

Init == InitBase /\ InitCrypto /\ InitKeyFile /\ InitPerm /\ InitUses /\ InitTail /\ InitUsage

\* --------------------------------------------- ClaudeSession: small methods
\* detachWebSocket(): swap in the no-op sink.
DetachWebSocket(w, e) == [w EXCEPT ![e] = Sink]

\* setWebSocket(t), the assignment.
SetWebSocket(w, e, t) == [w EXCEPT ![e] = t]

\* The replay without the accumulated text.
SetWebSocketSendsNoText(e, t) == Replay(e, t, pendingQuestions[e])

\* setWebSocket(t), the replay: the accumulated text, then every pending question.
SetWebSocketSends(e, t) ==
  (IF Len(streamingText[e]) > 0
   THEN Send(e, t, Msg("text", sessionId[e], streamingText[e], 0))
   ELSE <<>>)
  \o Replay(e, t, pendingQuestions[e])

\* abort() on the part of the engine it touches.
AbortView(e) ==
  [abortController |-> abortController[e], activeQuery |-> activeQuery[e],
   closes |-> closes[e]]

\* abort() that drops the reference without closing or signalling.
AbortOnNoKill(s) ==
  [abortController |-> s.abortController, activeQuery |-> FALSE, closes |-> s.closes]

\* abort() that closes the query but keeps the reference to it.
AbortOnKeepsRef(s) ==
  [abortController |-> IF s.abortController = "null" THEN "null" ELSE "aborted",
   activeQuery |-> s.activeQuery,
   closes |-> IF s.activeQuery THEN s.closes + 1 ELSE s.closes]

AbortOn(s) ==
  [abortController |-> IF s.abortController = "null" THEN "null" ELSE "aborted",
   activeQuery |-> FALSE,
   closes |-> IF s.activeQuery THEN s.closes + 1 ELSE s.closes]

\* The test made on the query reference instead of the running flag.
PromptInjectsOnQuery(e) == activeQuery[e]

\* The handler's test that sends a prompt to injectMessage instead of runQuery.
PromptInjects(e) == isRunning[e]

\* injectMessage's guard.
InjectAccepted(e) == activeQuery[e] /\ isRunning[e]

\* injectMessage's history entry.
InjectStoreCalls(e, text) == AppendIfId(sessionId[e], "user", text, 0)

\* resolveQuestion(q) that empties the map.
ResolvePendingClear(m, q) == <<>>

\* resolveQuestion(q) on the pending map.
ResolvePending(m, q) == MapDelete(m, q)

\* resolveQuestion(q): whether an entry is found.
ResolveFinds(e, q) == q \in PendingIds(e)

\* The id a query is started against: resumeSessionId || this.sessionId.
ResumeTarget(e) == IF resumeArg[e] # NoId THEN resumeArg[e] ELSE sessionId[e]

\* The handler's resumeId: msg.sessionId || _resumeSessionId || getSessionId().
ResumeIdOf(e, msgSid) ==
  IF msgSid # NoId THEN msgSid
  ELSE IF resumeHint[e] # NoId THEN resumeHint[e] ELSE sessionId[e]

\* The handler detaches the session it leaves only while that session runs.
DetachOld(w, c) ==
  IF activeSession[c] # NoEngine /\ isRunning[activeSession[c]]
  THEN DetachWebSocket(w, activeSession[c])
  ELSE w

\* -------------------------------------------------- handler: client messages
HandleNewSession(c) ==
  /\ sockOpen[c]
  /\ FreeEngines # {}
  /\ LET e == FreshEngine IN
       /\ born' = [born EXCEPT ![e] = TRUE]
       /\ ws' = SetWebSocket(DetachOld(ws, c), e, c)
       /\ activeSession' = [activeSession EXCEPT ![c] = e]
       /\ sends' = Send("handler", c, Msg("session_created", NoId, NoText, 0))
       /\ lastOp' = Op("new_session", c, e, 0)
  /\ storeCalls' = <<>>
  /\ UNCHANGED <<sessionId, pendingQuestions, abortController, activeQuery,
                 questionCounter, isRunning, streamingText, resumeHint>>
  /\ UNCHANGED <<loopVars, providerVars>>
  /\ UNCHANGED <<sockOpen, polling, starter, activeSessions, sessions>>
  /\ UNCHANGED <<toolVars, forkVars>>
  /\ UNCHANGED <<relayVars, sideVars>>

HandleResumeSession(c, sid) ==
  /\ sockOpen[c]
  /\ LET existing == activeSessions[sid]
         w1 == DetachOld(ws, c)
     IN
       IF sid \notin sessions
       THEN /\ ws' = w1
            /\ sends' = Send("handler", c, Msg("error", NoId, NoText, 0))
            /\ lastOp' = Op("resume_missing", c, activeSession[c], 0)
            /\ UNCHANGED <<born, activeSession, resumeHint>>
       ELSE IF existing # NoEngine
       THEN /\ ws' = SetWebSocket(w1, existing, c)
            /\ activeSession' = [activeSession EXCEPT ![c] = existing]
            /\ sends' = SetWebSocketSends(existing, c)
                          \o Send("handler", c, Msg("session_created", sid, NoText, 0))
                          \o Send("handler", c, Msg("session_history", sid, NoText, 0))
                          \o (IF isRunning[existing]
                              THEN Send("handler", c, Msg("status", sid, NoText, 0))
                              ELSE <<>>)
            /\ lastOp' = Op("resume_attach", c, existing, 0)
            /\ UNCHANGED <<born, resumeHint>>
       ELSE /\ FreeEngines # {}
            /\ born' = [born EXCEPT ![FreshEngine] = TRUE]
            /\ ws' = SetWebSocket(w1, FreshEngine, c)
            /\ resumeHint' = [resumeHint EXCEPT ![FreshEngine] = sid]
            /\ activeSession' = [activeSession EXCEPT ![c] = FreshEngine]
            /\ sends' = Send("handler", c, Msg("session_created", sid, NoText, 0))
                          \o Send("handler", c, Msg("session_history", sid, NoText, 0))
            /\ lastOp' = Op("resume_new", c, FreshEngine, 0)
  /\ storeCalls' = <<>>
  /\ UNCHANGED <<sessionId, pendingQuestions, abortController, activeQuery,
                 questionCounter, isRunning, streamingText>>
  /\ UNCHANGED <<loopVars, providerVars>>
  /\ UNCHANGED <<sockOpen, polling, starter, activeSessions, sessions>>
  /\ UNCHANGED <<toolVars, forkVars>>
  /\ UNCHANGED <<relayVars, sideVars>>

\* setForkSource(id)
SetForkSource(f, e, id) == [f EXCEPT ![e] = id]

\* const shouldFork = !!this._forkFromSessionId
ShouldFork(e) == forkFrom[e] # NoId

\* A runQuery that leaves the fork source in place.
ForkSourceKept(e) == forkFrom[e]

\* this._forkFromSessionId = undefined
ForkSourceConsumed(e) == NoId

\* resumeTarget: the fork source when forking, else resumeSessionId || this.sessionId.
QueryResume(e, resumeId) ==
  IF ShouldFork(e) THEN forkFrom[e]
  ELSE IF resumeId # NoId THEN resumeId ELSE sessionId[e]

\* runQuery up to its first await: everything before the for-await loop.
RunQueryEnter(c, e, text, resumeId) ==
  /\ qFork' = [qFork EXCEPT ![e] = ShouldFork(e)]
  /\ qResume' = [qResume EXCEPT ![e] = QueryResume(e, resumeId)]
  /\ forkFrom' = [forkFrom EXCEPT ![e] = ForkSourceConsumed(e)]
  /\ abortController' = [abortController EXCEPT ![e] = "armed"]
  /\ isRunning' = [isRunning EXCEPT ![e] = TRUE]
  /\ streamingText' = [streamingText EXCEPT ![e] = NoText]
  /\ activeQuery' = [activeQuery EXCEPT ![e] = TRUE]
  /\ pc' = [pc EXCEPT ![e] = "init"]
  /\ depth' = [depth EXCEPT ![e] = @ + 1]
  /\ promptText' = [promptText EXCEPT ![e] = text]
  /\ resumeArg' = [resumeArg EXCEPT ![e] = resumeId]
  /\ promptLogged' = [promptLogged EXCEPT ![e] = sessionId[e] # NoId \/ resumeId # NoId]
  /\ curTool' = [curTool EXCEPT ![e] = "none"]
  /\ closes' = [closes EXCEPT ![e] = 0]
  /\ turnText' = [turnText EXCEPT ![e] = NoText]
  /\ input' = [input EXCEPT ![e] = <<>>]
  /\ askId' = [askId EXCEPT ![e] = 0]
  /\ storeCalls' = AppendIfId(IF sessionId[e] # NoId THEN sessionId[e] ELSE resumeId,
                              "user", text, 0)
  /\ starter' = [starter EXCEPT ![e] = c]
  /\ polling' = [polling EXCEPT ![c] = TRUE]
  /\ UNCHANGED <<sessionId, pendingQuestions, questionCounter>>

\* injectMessage(text)
InjectMessage(e, text) ==
  /\ IF InjectAccepted(e)
     THEN /\ Len(input[e]) < MaxInject
          /\ storeCalls' = InjectStoreCalls(e, text)
          /\ input' = [input EXCEPT ![e] = Append(@, text)]
     ELSE /\ storeCalls' = <<>>
          /\ UNCHANGED input
  /\ UNCHANGED <<sessionId, pendingQuestions, abortController, activeQuery,
                 questionCounter, isRunning, streamingText>>
  /\ UNCHANGED <<loopVars, closes, turnText, askId, starter, polling>>
  /\ UNCHANGED <<forkFrom, qFork, qResume>>

\* The prompt handler finds that the context of the session it would resume
\* was cleared.
PromptReplaces(resumeId) == resumeId # NoId /\ resumeId \in cleared

HandlePrompt(c, text, msgSid) ==
  /\ sockOpen[c]
  /\ activeSession[c] = NoEngine => FreeEngines # {}
  /\ LET e == IF activeSession[c] = NoEngine THEN FreshEngine ELSE activeSession[c]
         made == activeSession[c] = NoEngine
     IN
       /\ born' = [born EXCEPT ![e] = TRUE]
       /\ ws' = IF made THEN SetWebSocket(ws, e, c) ELSE ws
       /\ activeSession' = [activeSession EXCEPT ![c] = e]
       /\ IF PromptInjects(e)
          THEN /\ InjectMessage(e, text)
               /\ lastOp' = Op("prompt_inject", c, e, 0)
               /\ UNCHANGED <<resumeHint, replaces, cleared>>
          ELSE LET resumeId == ResumeIdOf(e, msgSid) IN
               /\ IF PromptReplaces(resumeId)
                  THEN /\ cleared' = cleared \ {resumeId}
                       /\ replaces' = [replaces EXCEPT ![e] = resumeId]
                       /\ RunQueryEnter(c, e, text, NoId)
                  ELSE /\ UNCHANGED <<cleared, replaces>>
                       /\ RunQueryEnter(c, e, text, resumeId)
               /\ resumeHint' = [resumeHint EXCEPT ![e] = NoId]
               /\ lastOp' = Op("prompt_run", c, e, 0)
  /\ sends' = <<>>
  /\ UNCHANGED <<sockOpen, activeSessions, sessions>>
  /\ UNCHANGED <<toolVars, forkedOf>>
  /\ UNCHANGED <<relayVars, sideVars>>

\* fork_session: a new instance marked to branch from the source session.
HandleForkSession(c, sid) ==
  /\ sockOpen[c]
  /\ IF sid \notin sessions
     THEN /\ sends' = Send("handler", c, Msg("error", NoId, NoText, 0))
          /\ lastOp' = Op("fork_missing", c, activeSession[c], 0)
          /\ UNCHANGED <<born, ws, activeSession, forkFrom, forkedOf>>
     ELSE /\ FreeEngines # {}
          /\ LET e == FreshEngine IN
               /\ born' = [born EXCEPT ![e] = TRUE]
               /\ ws' = SetWebSocket(DetachOld(ws, c), e, c)
               /\ activeSession' = [activeSession EXCEPT ![c] = e]
               /\ forkFrom' = SetForkSource(forkFrom, e, sid)
               /\ forkedOf' = [forkedOf EXCEPT ![e] = sid]
               /\ sends' = Send("handler", c, Msg("session_created", NoId, NoText, 0))
                             \o Send("handler", c, Msg("session_history", sid, NoText, 0))
               /\ lastOp' = Op("fork_session", c, e, 0)
  /\ storeCalls' = <<>>
  /\ UNCHANGED <<sessionId, pendingQuestions, abortController, activeQuery,
                 questionCounter, isRunning, streamingText, resumeHint>>
  /\ UNCHANGED <<loopVars, providerVars>>
  /\ UNCHANGED <<sockOpen, polling, starter, activeSessions, sessions>>
  /\ UNCHANGED <<toolVars, replaces, cleared, qFork, qResume>>
  /\ UNCHANGED <<relayVars, sideVars>>

\* clear_context: abort the registered engine, archive the transcript, mark the
\* id as cleared.  The session's record stays in the store.
HandleClearContext(c, sid) ==
  /\ sockOpen[c]
  /\ IF sid \in sessions
     THEN LET running == activeSessions[sid] IN
          /\ IF running # NoEngine
             THEN LET s == AbortOn(AbortView(running)) IN
                  /\ abortController' = [abortController EXCEPT ![running] = s.abortController]
                  /\ activeQuery' = [activeQuery EXCEPT ![running] = s.activeQuery]
                  /\ closes' = [closes EXCEPT ![running] = s.closes]
                  /\ activeSessions' = [activeSessions EXCEPT ![sid] = NoEngine]
             ELSE UNCHANGED <<abortController, activeQuery, closes, activeSessions>>
          /\ storeCalls' = <<StoreCall("clearSessionContext", sid, "", NoText, 0)>>
          /\ cleared' = cleared \cup {sid}
          /\ sends' = Send("handler", c, Msg("context_cleared", sid, NoText, 0))
          /\ lastOp' = Op("clear_context", c, running, 0)
     ELSE /\ storeCalls' = <<>>
          /\ sends' = <<>>
          /\ lastOp' = Op("clear_missing", c, NoEngine, 0)
          /\ UNCHANGED <<abortController, activeQuery, closes, activeSessions, cleared>>
  /\ UNCHANGED <<born, sessionId, pendingQuestions, questionCounter, isRunning,
                 streamingText, ws, resumeHint>>
  /\ UNCHANGED <<loopVars, turnText, input, askId>>
  /\ UNCHANGED <<activeSession, sockOpen, polling, starter, sessions>>
  /\ UNCHANGED <<toolVars, forkFrom, replaces, qFork, qResume, forkedOf>>
  /\ UNCHANGED <<relayVars, sideVars>>

\* resolveQuestion(q): the continuation of the canUseTool call that awaits q.
ResolveWakes(e, q) == pc[e] = "asking" /\ askId[e] = q

\* The canUseTool call is over: its arguments and locals are gone.
ClosePerm(e) ==
  /\ askInput' = [askInput EXCEPT ![e] = "none"]
  /\ pluginResults' = [pluginResults EXCEPT ![e] = <<>>]
  /\ consulted' = [consulted EXCEPT ![e] = <<>>]
  /\ decision' = [decision EXCEPT ![e] = NoDecision]

\* A return value that carries the input as it came.
AllowInputOnly(inp, a) == [behavior |-> "allow", input |-> inp, answers |-> "none"]

\* return { behavior: "allow", updatedInput: { ...input, answers } }
AllowWithAnswers(inp, a) == [behavior |-> "allow", input |-> inp, answers |-> a]

\* What a client can answer, and what a tool call can carry as its input.
Answers == {"yes", "no"}

\* The labels of the two options of the plan question, and two texts a user
\* can type instead of picking one, as sequences of characters.
Approve == <<"A", "p", "p", "r", "o", "v", "e">>
Reject == <<"R", "e", "j", "e", "c", "t">>
Disapprove == <<"D", "i", "s", "a", "p", "p", "r", "o", "v", "e">>
Later == <<"L", "a", "t", "e", "r">>

\* The answer maps a client can send to the plan question, by name.
PlanAnswers == {"approve", "reject", "disapprove", "later", "empty"}

\* Object.values(answers)
AnswerValues(a) ==
  CASE a = "approve" -> <<Approve>>
    [] a = "reject" -> <<Reject>>
    [] a = "disapprove" -> <<Disapprove>>
    [] a = "later" -> <<Later>>
    [] OTHER -> <<>>

\* Object.values(answers)[0] || ""
FirstAnswer(a) == IF Len(AnswerValues(a)) > 0 THEN AnswerValues(a)[1] ELSE <<>>

\* toLowerCase(), over the letters the answers are written with.
LowerChar(ch) ==
  CASE ch = "A" -> "a"
    [] ch = "D" -> "d"
    [] ch = "L" -> "l"
    [] ch = "R" -> "r"
    [] OTHER -> ch

ToLowerCase(t) == [i \in 1..Len(t) |-> LowerChar(t[i])]

\* t.includes(part)
Includes(t, part) ==
  \E i \in 1..(Len(t) - Len(part) + 1) : SubSeq(t, i, i + Len(part) - 1) = part

\* firstAnswer.toLowerCase().includes("approve")
PlanApproved(a) == Includes(ToLowerCase(FirstAnswer(a)), ToLowerCase(Approve))

\* The return value of the ExitPlanMode branch once the answers a arrived.
PlanDecision(inp, a) ==
  IF PlanApproved(a)
  THEN [behavior |-> "allow", input |-> inp, answers |-> "none"]
  ELSE [behavior |-> "deny", input |-> inp, answers |-> "none"]

\* What the suspended canUseTool call of tool returns on the answers a.
AnswerDecision(tool, inp, a) ==
  IF tool = "plan" THEN PlanDecision(inp, a) ELSE AllowWithAnswers(inp, a)
ToolInputs == {"in1", "in2"}

\* case "answer": unless a plugin's answerMiddleware handled it (mw), the
\* answers a go to resolveQuestion.
HandleAnswerWith(c, q, a, mw) ==
  /\ sockOpen[c]
  /\ activeSession[c] # NoEngine
  /\ LET e == activeSession[c] IN
       /\ IF ~mw /\ ResolveFinds(e, q)
          THEN /\ pendingQuestions' = [pendingQuestions EXCEPT ![e] = ResolvePending(@, q)]
               /\ pc' = IF ResolveWakes(e, q) THEN [pc EXCEPT ![e] = "allowed"] ELSE pc
               /\ askId' = IF ResolveWakes(e, q) THEN [askId EXCEPT ![e] = 0] ELSE askId
               /\ decision' = IF ResolveWakes(e, q)
                              THEN [decision EXCEPT ![e] =
                                      AnswerDecision(curTool[e], askInput[e], a)]
                              ELSE decision
               /\ storeCalls' =
                    IF sessionId[e] # NoId
                    THEN <<StoreCall("markQuestionAnswered", sessionId[e], "question", NoText, q)>>
                    ELSE <<>>
          ELSE /\ storeCalls' = <<>>
               /\ UNCHANGED <<pendingQuestions, pc, askId, decision>>
       /\ lastOp' = [Op(IF mw THEN "answer_handled" ELSE "answer", c, e, q) EXCEPT !.arg = a]
  /\ sends' = <<>>
  /\ UNCHANGED <<born, sessionId, abortController, activeQuery, questionCounter,
                 isRunning, streamingText, ws, resumeHint>>
  /\ UNCHANGED <<depth, promptText, resumeArg, promptLogged, curTool>>
  /\ UNCHANGED <<closes, turnText, input, handlerVars>>
  /\ UNCHANGED <<toolVars, forkVars>>
  /\ UNCHANGED <<askInput, pluginResults, consulted>>
  /\ UNCHANGED <<relayVars, otherVars, usageVars>>

\* An answer message on a server without plugins.
HandleAnswer(c, q) == HandleAnswerWith(c, q, "yes", FALSE)

HandleAbort(c) ==
  /\ sockOpen[c]
  /\ activeSession[c] # NoEngine
  /\ LET e == activeSession[c]
         s == AbortOn(AbortView(e))
     IN
       /\ abortController' = [abortController EXCEPT ![e] = s.abortController]
       /\ activeQuery' = [activeQuery EXCEPT ![e] = s.activeQuery]
       /\ closes' = [closes EXCEPT ![e] = s.closes]
       /\ lastOp' = Op("abort", c, e, 0)
  /\ sends' = <<>>
  /\ storeCalls' = <<>>
  /\ UNCHANGED <<born, sessionId, pendingQuestions, questionCounter, isRunning,
                 streamingText, ws, resumeHint>>
  /\ UNCHANGED <<loopVars, turnText, input, askId, handlerVars>>
  /\ UNCHANGED <<toolVars, forkVars>>
  /\ UNCHANGED <<relayVars, sideVars>>

\* stopTask without the deduplication.
StopTaskNeverDrops(e, t) == FALSE

\* stopTask(t): the request is dropped when the id was seen before.
StopTaskDrops(e, t) == t \in stoppedTasks[e]

\* stopTask(t): whether the provider is asked to stop the task.
StopTaskRequests(e, t) == ~StopTaskDrops(e, t) /\ activeQuery[e]

\* The reverse lookup of stopTask: the provider id mapped to tool-use id t, else t.
SdkTaskIdOf(e, t) ==
  IF \E p \in taskIdToToolUseId[e] : p[2] = t
  THEN (CHOOSE p \in taskIdToToolUseId[e] : p[2] = t)[1]
  ELSE t

HandleStopTask(c, t) ==
  /\ sockOpen[c]
  /\ activeSession[c] # NoEngine
  /\ LET e == activeSession[c] IN
       /\ stoppedTasks' = [stoppedTasks EXCEPT ![e] = @ \cup {t}]
       /\ stopRequests' =
            IF StopTaskRequests(e, t)
            THEN [stopRequests EXCEPT ![e][t] = @ + 1]
            ELSE stopRequests
       /\ sdkTaskId' =
            IF StopTaskRequests(e, t)
            THEN [sdkTaskId EXCEPT ![e] = SdkTaskIdOf(e, t)]
            ELSE sdkTaskId
       /\ lastOp' = Op("stop_task", c, e, t)
  /\ sends' = <<>>
  /\ storeCalls' = <<>>
  /\ UNCHANGED <<engineVars, loopVars, providerVars, handlerVars, activeBashStream,
                 forkVars>>
  /\ UNCHANGED <<relayVars, permVars, cryptoVars, keyFileVars, useVars, fileVars, pollVars,
                 taskIdToToolUseId, usageVars>>

\* A close handler that aborts the connection's session.
SocketCloseAborts(c) ==
  /\ sockOpen[c]
  /\ sockOpen' = [sockOpen EXCEPT ![c] = FALSE]
  /\ lastOp' = Op("close", c, activeSession[c], 0)
  /\ sends' = <<>>
  /\ storeCalls' = <<>>
  /\ IF activeSession[c] # NoEngine
     THEN LET e == activeSession[c]
              s == AbortOn(AbortView(e))
          IN /\ abortController' = [abortController EXCEPT ![e] = s.abortController]
             /\ activeQuery' = [activeQuery EXCEPT ![e] = s.activeQuery]
             /\ closes' = [closes EXCEPT ![e] = s.closes]
     ELSE UNCHANGED <<abortController, activeQuery, closes>>
  /\ UNCHANGED <<born, sessionId, pendingQuestions, questionCounter, isRunning,
                 streamingText, ws, resumeHint>>
  /\ UNCHANGED <<loopVars, turnText, input, askId>>
  /\ UNCHANGED <<activeSession, polling, starter, activeSessions, sessions>>
  /\ UNCHANGED <<toolVars, forkVars>>
  /\ UNCHANGED <<relayVars, sideVars>>

\* ws.on("close"): the session is left alone.
SocketClose(c) ==
  /\ sockOpen[c]
  /\ sockOpen' = [sockOpen EXCEPT ![c] = FALSE]
  /\ lastOp' = Op("close", c, activeSession[c], 0)
  /\ sends' = <<>>
  /\ storeCalls' = <<>>
  /\ UNCHANGED <<engineVars, loopVars, providerVars>>
  /\ UNCHANGED <<activeSession, polling, starter, activeSessions, sessions>>
  /\ UNCHANGED <<toolVars, forkVars>>
  /\ UNCHANGED <<relayVars, sideVars>>

\* One tick of the prompt handler's 500 ms registration interval.
PollTick(c) ==
  /\ polling[c]
  /\ LET e == activeSession[c]
         sid == sessionId[e]
     IN
       /\ activeSessions' =
            IF sid # NoId /\ activeSessions[sid] = NoEngine
            THEN [activeSessions EXCEPT ![sid] = e]
            ELSE activeSessions
       /\ polling' = [polling EXCEPT ![c] = (sid = NoId)]
       /\ lastOp' = Op("poll", c, e, 0)
  /\ sends' = <<>>
  /\ storeCalls' = <<>>
  /\ UNCHANGED <<engineVars, loopVars, providerVars>>
  /\ UNCHANGED <<activeSession, sockOpen, starter, sessions>>
  /\ UNCHANGED <<toolVars, forkVars>>
  /\ UNCHANGED <<relayVars, sideVars>>

\* The 30 s timer that clears the interval.
PollTimeout(c) ==
  /\ polling[c]
  /\ polling' = [polling EXCEPT ![c] = FALSE]
  /\ lastOp' = Op("poll_timeout", c, activeSession[c], 0)
  /\ sends' = <<>>
  /\ storeCalls' = <<>>
  /\ UNCHANGED <<engineVars, loopVars, providerVars>>
  /\ UNCHANGED <<activeSession, sockOpen, starter, activeSessions, sessions>>
  /\ UNCHANGED <<toolVars, forkVars>>
  /\ UNCHANGED <<relayVars, sideVars>>

\* ------------------------------------------------ runQuery: the stream loop
\* The subprocess of the engine's query is alive: close() has not been called,
\* nor the abort signal raised.
Alive(e) == closes[e] = 0 /\ abortController[e] # "aborted"

LoopFields ==
  /\ UNCHANGED <<born, ws, resumeHint, abortController, depth, promptText, resumeArg>>
  /\ UNCHANGED <<closes, activeSession, sockOpen, polling, starter>>
  /\ UNCHANGED <<stoppedTasks, stopRequests, forkVars>>

LoopCore == LoopFields /\ UNCHANGED usageVars

LoopUnchanged == LoopCore /\ UNCHANGED <<relayVars, otherVars>>

\* saveSession(record) on the ids that have a record.
SaveSession(store, sid) == store \cup {sid}

\* remapSession(old, new) on the ids that have a record.
RemapSession(store, old, new) ==
  IF old \in store THEN (store \ {old}) \cup {new} ELSE store

RemapCall(old, new) ==
  [fn |-> "remapSession", sid |-> new, role |-> "", text |-> NoText, qid |-> 0,
   old |-> old]

\* The session id the provider confirms: the one it resumes, a new one when it
\* forks or starts afresh.
ConfirmedId(e) ==
  IF ~qFork[e] /\ ResumeTarget(e) # NoId THEN ResumeTarget(e) ELSE NewIdOf(e)

\* An init handler that re-points the record and saves a new one as well.
InitSavesAlways(e) == resumeArg[e] = NoId

\* The init handler saves initial metadata: no replacement marker, not a resume.
InitSaves(e) == replaces[e] = NoId /\ resumeArg[e] = NoId

\* An init handler that keeps the replacement marker.
MarkerKept(e) == replaces[e]

\* this.replacesSessionId = undefined
MarkerConsumed(e) == NoId

\* system/init: the provider confirms the session id.
StreamInit(e) ==
  /\ pc[e] = "init" /\ Alive(e)
  /\ LET sid == ConfirmedId(e)
         s1 == IF replaces[e] # NoId THEN RemapSession(sessions, replaces[e], sid)
                                     ELSE sessions
     IN
       /\ sessionId' = [sessionId EXCEPT ![e] = sid]
       /\ sends' = Send(e, ws[e], Msg("session_created", sid, NoText, 0))
       /\ sessions' = IF InitSaves(e) THEN SaveSession(s1, sid) ELSE s1
       /\ replaces' = [replaces EXCEPT ![e] = IF @ # NoId THEN MarkerConsumed(e) ELSE @]
       /\ storeCalls' =
            (IF replaces[e] # NoId THEN <<RemapCall(replaces[e], sid)>> ELSE <<>>)
            \o (IF InitSaves(e)
                THEN <<StoreCall("saveSession", sid, "", NoText, 0)>> ELSE <<>>)
            \o (IF ~promptLogged[e]
                THEN <<StoreCall("appendHistory", sid, "user", promptText[e], 0)>>
                ELSE <<>>)
  /\ promptLogged' = [promptLogged EXCEPT ![e] = TRUE]
  /\ pc' = [pc EXCEPT ![e] = "turn"]
  /\ lastOp' = Op("init_event", "loop", e, 0)
  \* prompt and resumeSessionId are not read after this point
  /\ promptText' = [promptText EXCEPT ![e] = NoText]
  /\ resumeArg' = [resumeArg EXCEPT ![e] = NoId]
  /\ UNCHANGED <<born, ws, resumeHint, abortController, depth>>
  /\ UNCHANGED <<closes, activeSession, sockOpen, polling, starter>>
  /\ UNCHANGED <<pendingQuestions, activeQuery, questionCounter, isRunning,
                 streamingText, curTool, turnText, input, askId, activeSessions>>
  /\ UNCHANGED <<toolVars, forkFrom, cleared, qFork, qResume, forkedOf>>
  /\ UNCHANGED <<relayVars, sideVars>>

\* The buffer after a text_delta.
Accumulate(buf, d) == buf \o d

\* stream_event / content_block_delta / text_delta
StreamDelta(e, d) ==
  /\ pc[e] = "turn" /\ Alive(e)
  /\ Len(turnText[e]) < MaxDeltas
  /\ turnText' = [turnText EXCEPT ![e] = @ \o d]
  /\ streamingText' = [streamingText EXCEPT ![e] = Accumulate(@, d)]
  /\ sends' = Send(e, ws[e], Msg("text", sessionId[e], d, 0))
  /\ storeCalls' = <<>>
  /\ lastOp' = Op("delta", "loop", e, 0)
  /\ LoopUnchanged /\ UNCHANGED permVars
  /\ UNCHANGED <<sessionId, pendingQuestions, activeQuery, questionCounter, isRunning,
                 pc, promptLogged, curTool, input, askId,
                 activeSessions, sessions, activeBashStream>>

\* The buffer left as it is.
BufferKept(buf) == buf

\* The buffer after an assistant message.
BufferAfterTurn(buf) == NoText

\* What an assistant message with text parts writes to history.
FlushCalls(e, text) ==
  IF Len(text) > 0 THEN AppendIfId(sessionId[e], "assistant", text, 0) ELSE <<>>

\* The tool_call event and history entry of a tool_use block.
ToolCallSends(e, tool) ==
  IF tool = "bash" THEN Send(e, ws[e], Msg("tool_call", sessionId[e], NoText, 0)) ELSE <<>>

ToolCallStore(e, tool) ==
  IF tool = "bash" THEN AppendIfId(sessionId[e], "tool_call", NoText, 0) ELSE <<>>

\* The provider's id of the background task that tool use i became.
BgIdOf(i) == 0 - i

\* A byte of the live-output file: who wrote it, at which position of its
\* output, and whether the command that wrote it is the engine's current one.
Byte(e, i) == [by |-> e, pos |-> i, cur |-> TRUE]

\* The bytes of the file once engine e goes on to its next command.
Stale(log, e) ==
  [k \in DOMAIN log |-> IF log[k].by = e THEN [log[k] EXCEPT !.cur = FALSE] ELSE log[k]]

\* The provider goes on to run a new shell command for engine e.
NewCommand(e) ==
  /\ liveLog' = Stale(liveLog, e)
  /\ wrote' = [wrote EXCEPT ![e] = 0]
  /\ hooked' = [hooked EXCEPT ![e] = FALSE]

\* const state = { interval, filePath, lastSize: 0 }
WatchState(e, path) ==
  /\ lastSize' = [lastSize EXCEPT ![e] = 0]
  /\ watchPath' = [watchPath EXCEPT ![e] = path]
  /\ forwarded' = [forwarded EXCEPT ![e] = <<>>]

\* _stopBashWatcher(): clear the interval, if any.
StopBashWatcher(a, e) == [a EXCEPT ![e] = FALSE]

\* _startBashWatcher(file): stop the previous watcher, start an interval.
StartBashWatcher(a, e) == [StopBashWatcher(a, e) EXCEPT ![e] = TRUE]

\* assistant: the complete message of a turn, with at most one tool_use block.
StreamAssistant(e, tool) ==
  /\ pc[e] = "turn" /\ Alive(e)
  /\ streamingText' = [streamingText EXCEPT ![e] = BufferAfterTurn(@)]
  /\ turnText' = [turnText EXCEPT ![e] = NoText]
  /\ storeCalls' = FlushCalls(e, turnText[e]) \o ToolCallStore(e, tool)
  /\ sends' = ToolCallSends(e, tool)
  /\ curTool' = [curTool EXCEPT ![e] = tool]
  /\ pc' = [pc EXCEPT ![e] = IF tool = "none" THEN "final" ELSE "tools"]
  /\ lastOp' = Op("assistant", "loop", e, 0)
  /\ activeBashStream' =
       IF tool = "bash" THEN StartBashWatcher(activeBashStream, e) ELSE activeBashStream
  /\ IF tool = "bash" THEN WatchState(e, "live") /\ NewCommand(e)
     ELSE UNCHANGED <<pollVars, fileVars>>
  /\ LoopCore /\ UNCHANGED <<permVars, relayVars, cryptoVars, keyFileVars, useVars, bgVars>>
  /\ UNCHANGED <<sessionId, pendingQuestions, activeQuery, questionCounter, isRunning,
                 promptLogged, input, askId, activeSessions, sessions>>

\* An id taken from the size of the pending map.
NextQuestionIdBySize(e) == Len(pendingQuestions[e]) + 1

\* `q${++this.questionCounter}`
NextQuestionId(e) == questionCounter[e] + 1

\* What an interceptor can return to one call: nothing at all when the plugin
\* has no interceptor, null, or a permission result.
InterceptorResults == {"absent", "null", "allow", "deny"}

\* What the interceptors of the loaded plugins return, in plugin-list order.
PluginResultLists ==
  UNION {[1..n -> InterceptorResults] : n \in 0..MaxPlugins}

\* A loop over the plugins that runs every interceptor and keeps the last
\* result that is not null.
RECURSIVE InterceptAll(_, _)
InterceptAll(res, i) ==
  IF i > Len(res) THEN [seen |-> <<>>, result |-> "null"]
  ELSE LET r == InterceptAll(res, i + 1) IN
         IF res[i] = "absent" THEN r
         ELSE [seen |-> <<i>> \o r.seen,
               result |-> IF r.result # "null" THEN r.result ELSE res[i]]

\* for (const plugin of this.plugins): run the interceptor of each plugin that
\* has one, return the first result that is not null.
RECURSIVE Intercept(_, _)
Intercept(res, i) ==
  IF i > Len(res) THEN [seen |-> <<>>, result |-> "null"]
  ELSE IF res[i] = "absent" THEN Intercept(res, i + 1)
  ELSE IF res[i] # "null" THEN [seen |-> <<i>>, result |-> res[i]]
  ELSE LET r == Intercept(res, i + 1) IN [seen |-> <<i>> \o r.seen, result |-> r.result]

\* canUseTool("AskUserQuestion" or "ExitPlanMode", inp) on a server whose
\* plugins' interceptors return res: an interceptor's result decides, else the
\* question is issued and the call suspends on its answer.
CanUseTool(e, inp, res) ==
  /\ pc[e] = "tools" /\ Alive(e)
  /\ curTool[e] \in InteractiveTools
  /\ LET it == Intercept(res, 1) IN
       /\ askInput' = [askInput EXCEPT ![e] = inp]
       /\ pluginResults' = [pluginResults EXCEPT ![e] = res]
       /\ consulted' = [consulted EXCEPT ![e] = it.seen]
       /\ IF it.result # "null"
          THEN /\ decision' = [decision EXCEPT ![e] =
                                 [behavior |-> it.result, input |-> inp, answers |-> "none"]]
               /\ pc' = [pc EXCEPT ![e] = "allowed"]
               /\ sends' = <<>>
               /\ storeCalls' = <<>>
               /\ lastOp' = Op("intercepted", "loop", e, 0)
               /\ UNCHANGED <<questionCounter, pendingQuestions, askId>>
          ELSE /\ questionCounter[e] < MaxQuestions
               /\ LET q == NextQuestionId(e)
                      m == Msg("question", sessionId[e], NoText, q)
                  IN
                    /\ questionCounter' = [questionCounter EXCEPT ![e] = q]
                    /\ sends' = Send(e, ws[e], m)
                    /\ storeCalls' = AppendIfId(sessionId[e], "question", NoText, q)
                    /\ pendingQuestions' =
                         [pendingQuestions EXCEPT
                            ![e] = MapSet(@, [questionId |-> q, questionData |-> m])]
                    /\ askId' = [askId EXCEPT ![e] = q]
                    /\ lastOp' = Op("question", "loop", e, q)
               /\ decision' = [decision EXCEPT ![e] = NoDecision]
               /\ pc' = [pc EXCEPT ![e] = "asking"]
  /\ LoopUnchanged
  /\ UNCHANGED <<sessionId, activeQuery, isRunning, streamingText, promptLogged,
                 curTool, turnText, input, activeSessions, sessions, activeBashStream>>

\* canUseTool("AskUserQuestion") on a server without plugins.
CanUseToolAsk(e) == CanUseTool(e, "in1", <<>>)

\* A tool_result_chunk event.
ChunkMsg(sid, idx, content, done) ==
  [type |-> "tool_result_chunk", sid |-> sid, text |-> content, qid |-> 0,
   chunkIndex |-> idx, done |-> done]

\* output.slice(a, b)
Slice(out, a, b) == SubSeq(out, a + 1, IF b < Len(out) THEN b ELSE Len(out))

\* A done flag that misses the outputs whose length is a multiple of the chunk size.
ChunkDoneStrict(i, n) == i + CHUNK_SIZE > n

\* done: i + CHUNK_SIZE >= output.length
ChunkDone(i, n) == i + CHUNK_SIZE >= n

\* The chunk loop from offset i, the next chunk index being idx.
RECURSIVE ChunkSends(_, _, _, _)
ChunkSends(e, out, i, idx) ==
  IF i >= Len(out) THEN <<>>
  ELSE Send(e, ws[e], ChunkMsg(sessionId[e], idx, Slice(out, i, i + CHUNK_SIZE),
                               ChunkDone(i, Len(out))))
       \o ChunkSends(e, out, i + CHUNK_SIZE, idx + 1)

\* The events that carry a tool output: chunks above the threshold, else one event.
ToolResultSends(e, out) ==
  IF Len(out) > CHUNK_THRESHOLD
  THEN ChunkSends(e, out, 0, 0)
  ELSE Send(e, ws[e], Msg("tool_result", sessionId[e], out, 0))

\* The output announces that the command was moved to the background, and a
\* watcher is active.
MovedToBackground(e, bg) == bg /\ activeBashStream[e]

\* user / tool_result: the tool ran, which needs canUseTool to have returned
\* (at once for any tool but the question tool).  out is the tool's output, bg
\* tells whether it matches the moved-to-background pattern.
StreamToolResult(e, out, bg) ==
  /\ Alive(e)
  /\ \/ pc[e] = "tools" /\ curTool[e] = "bash"
     \/ pc[e] = "allowed"
  /\ activeBashStream' =
       IF MovedToBackground(e, bg)
       THEN StartBashWatcher(StopBashWatcher(activeBashStream, e), e)
       ELSE StopBashWatcher(activeBashStream, e)
  /\ sends' =
       (IF MovedToBackground(e, bg)
        THEN Send(e, ws[e], Msg("bash_backgrounded", sessionId[e], NoText, 0))
        ELSE <<>>)
       \o ToolResultSends(e, out)
  /\ storeCalls' = AppendIfId(sessionId[e], "tool_result", out, 0)
  /\ input' = [input EXCEPT ![e] = <<>>]
  /\ curTool' = [curTool EXCEPT ![e] = "none"]
  /\ pc' = [pc EXCEPT ![e] = "turn"]
  /\ lastOp' = Op("tool_result", "loop", e, 0)
  /\ ClosePerm(e)
  /\ WatchState(e, IF MovedToBackground(e, bg) THEN "out" ELSE "none")
  /\ taskIdToToolUseId' =
       IF MovedToBackground(e, bg)
       THEN [taskIdToToolUseId EXCEPT ![e] = @ \cup {<<BgIdOf(1), 1>>}]
       ELSE taskIdToToolUseId
  /\ LoopCore /\ UNCHANGED <<relayVars, cryptoVars, keyFileVars, useVars, fileVars, sdkTaskId>>
  /\ UNCHANGED <<sessionId, pendingQuestions, activeQuery, questionCounter, isRunning,
                 streamingText, promptLogged, turnText, askId, activeSessions, sessions>>

\* The tools an assistant message can name in its tool_use blocks, and the
\* block lists it can carry.
UseNames == {"Bash", "Read"}
UseLists == UNION {[1..n -> UseNames] : n \in 1..MaxUses}

\* The tool_call events and history entries of the blocks, in order.
RECURSIVE UseSends(_, _)
UseSends(e, names) ==
  IF names = <<>> THEN <<>>
  ELSE ToolCallSends(e, "bash") \o UseSends(e, Tail(names))

RECURSIVE UseStore(_, _)
UseStore(e, names) ==
  IF names = <<>> THEN <<>>
  ELSE ToolCallStore(e, "bash") \o UseStore(e, Tail(names))

BashBlocks(names) == {i \in DOMAIN names : names[i] = "Bash"}

\* The Bash block handled last.
LastBash(names) ==
  CHOOSE i \in BashBlocks(names) : \A j \in BashBlocks(names) : j <= i

\* assistant: the complete message of a turn with one or more tool_use blocks;
\* every Bash block starts the watcher (stopping the one before).
StreamAssistantUses(e, names) ==
  /\ pc[e] = "turn" /\ Alive(e)
  /\ streamingText' = [streamingText EXCEPT ![e] = BufferAfterTurn(@)]
  /\ turnText' = [turnText EXCEPT ![e] = NoText]
  /\ storeCalls' = FlushCalls(e, turnText[e]) \o UseStore(e, names)
  /\ sends' = UseSends(e, names)
  /\ curTool' = [curTool EXCEPT ![e] = "uses"]
  /\ pc' = [pc EXCEPT ![e] = "tools"]
  /\ lastOp' = Op("assistant", "loop", e, 0)
  /\ activeBashStream' =
       IF BashBlocks(names) # {} THEN StartBashWatcher(activeBashStream, e)
       ELSE activeBashStream
  /\ watchOf' = IF BashBlocks(names) # {} THEN [watchOf EXCEPT ![e] = LastBash(names)]
                ELSE watchOf
  /\ openUses' = [openUses EXCEPT ![e] = DOMAIN names]
  /\ useTools' = [useTools EXCEPT ![e] = names]
  /\ IF BashBlocks(names) # {} THEN WatchState(e, "live") /\ NewCommand(e)
     ELSE UNCHANGED <<pollVars, fileVars>>
  /\ LoopCore /\ UNCHANGED permVars
  /\ UNCHANGED <<relayVars, cryptoVars, keyFileVars, bgVars>>
  /\ UNCHANGED <<sessionId, pendingQuestions, activeQuery, questionCounter, isRunning,
                 promptLogged, input, askId, activeSessions, sessions>>

\* user / tool_result: _stopBashWatcher() whatever block.tool_use_id is.
StopOnResult(e, i) == TRUE

\* user / tool_result for block i of a message with several tool_use blocks.
StreamUseResult(e, i, out, bg) ==
  /\ Alive(e)
  /\ pc[e] = "tools" /\ curTool[e] = "uses"
  /\ i \in openUses[e]
  /\ activeBashStream' =
       IF MovedToBackground(e, bg)
       THEN StartBashWatcher(StopBashWatcher(activeBashStream, e), e)
       ELSE IF StopOnResult(e, i) THEN StopBashWatcher(activeBashStream, e)
       ELSE activeBashStream
  /\ watchOf' = IF MovedToBackground(e, bg) THEN [watchOf EXCEPT ![e] = i]
                ELSE IF StopOnResult(e, i) THEN [watchOf EXCEPT ![e] = 0]
                ELSE watchOf
  /\ sends' =
       (IF MovedToBackground(e, bg)
        THEN Send(e, ws[e], Msg("bash_backgrounded", sessionId[e], NoText, 0))
        ELSE <<>>)
       \o ToolResultSends(e, out)
  /\ storeCalls' = AppendIfId(sessionId[e], "tool_result", out, 0)
  /\ openUses' = [openUses EXCEPT ![e] = @ \ {i}]
  /\ UNCHANGED useTools
  /\ input' = [input EXCEPT ![e] = <<>>]
  /\ curTool' = [curTool EXCEPT ![e] = IF openUses[e] = {i} THEN "none" ELSE "uses"]
  /\ pc' = [pc EXCEPT ![e] = IF openUses[e] = {i} THEN "turn" ELSE "tools"]
  /\ lastOp' = [Op("tool_result", "loop", e, i) EXCEPT
                  !.arg = IF MovedToBackground(e, bg) THEN "backgrounded"
                          ELSE IF bg THEN "signal" ELSE "none"]
  /\ IF MovedToBackground(e, bg) THEN WatchState(e, "out")
     ELSE IF StopOnResult(e, i) THEN WatchState(e, "none")
     ELSE UNCHANGED pollVars
  /\ taskIdToToolUseId' =
       IF MovedToBackground(e, bg)
       THEN [taskIdToToolUseId EXCEPT ![e] = @ \cup {<<BgIdOf(i), i>>}]
       ELSE taskIdToToolUseId
  /\ LoopCore /\ UNCHANGED permVars
  /\ UNCHANGED <<relayVars, cryptoVars, keyFileVars, fileVars, sdkTaskId>>
  /\ UNCHANGED <<sessionId, pendingQuestions, activeQuery, questionCounter, isRunning,
                 streamingText, promptLogged, turnText, askId, activeSessions, sessions>>

\* One tick of the watcher interval that finds new bytes in the watched file.
WatcherTick(e) ==
  /\ activeBashStream[e]
  /\ sends' = Send(e, ws[e], Msg("tool_stderr", sessionId[e], NoText, 0))
  /\ storeCalls' = <<>>
  /\ lastOp' = Op("watch", "timer", e, 0)
  /\ UNCHANGED <<engineVars, loopVars, providerVars, handlerVars, toolVars, forkVars>>
  /\ UNCHANGED <<relayVars, sideVars>>

\* What the rest of the program does while the file and the watcher act.
LogUnchanged ==
  /\ UNCHANGED <<engineVars, loopVars, providerVars, handlerVars, toolVars, forkVars>>
  /\ UNCHANGED <<relayVars, permVars, cryptoVars, keyFileVars, useVars, bgVars, usageVars>>

\* bash-stream-hook.sh, run by the provider before the command: > "$OUTFILE"
HookTruncate(e) ==
  /\ Alive(e)
  /\ pc[e] = "tools" /\ curTool[e] = "bash"
  /\ ~hooked[e]
  /\ liveLog' = <<>>
  /\ hooked' = [hooked EXCEPT ![e] = TRUE]
  /\ sends' = <<>>
  /\ storeCalls' = <<>>
  /\ lastOp' = Op("hook", "provider", e, 0)
  /\ UNCHANGED <<wrote, pollVars>>
  /\ LogUnchanged

\* The wrapped command: (COMMAND) 2>&1 | stdbuf -oL tee ${OUTFILE}, one byte.
CommandWrites(e) ==
  /\ Alive(e)
  /\ pc[e] = "tools" /\ curTool[e] = "bash"
  /\ hooked[e]
  /\ wrote[e] < MaxLogLen
  /\ liveLog' = Append(liveLog, Byte(e, wrote[e] + 1))
  /\ wrote' = [wrote EXCEPT ![e] = @ + 1]
  /\ sends' = <<>>
  /\ storeCalls' = <<>>
  /\ lastOp' = Op("write", "provider", e, 0)
  /\ UNCHANGED <<hooked, pollVars>>
  /\ LogUnchanged

\* The offset a tick reads from: state.lastSize.
ReadFrom(e) == lastSize[e]

\* One tick of the interval of _startBashWatcher on the live-output file:
\* if (stat.size > state.lastSize) read the bytes from lastSize on and send them.
WatcherPoll(e) ==
  /\ activeBashStream[e] /\ watchPath[e] = "live"
  /\ LET from == ReadFrom(e) IN
       IF Len(liveLog) > from
       THEN LET content == SubSeq(liveLog, from + 1, Len(liveLog)) IN
              /\ lastSize' = [lastSize EXCEPT ![e] = Len(liveLog)]
              /\ forwarded' = [forwarded EXCEPT ![e] = @ \o content]
              /\ sends' = Send(e, ws[e], Msg("tool_stderr", sessionId[e], content, 0))
              /\ lastOp' = Op("poll", "timer", e, 0)
       ELSE /\ lastSize' = [lastSize EXCEPT ![e] = from]
            /\ sends' = <<>>
            /\ lastOp' = Op("poll_idle", "timer", e, 0)
            /\ UNCHANGED forwarded
  /\ storeCalls' = <<>>
  /\ UNCHANGED <<watchPath, fileVars>>
  /\ LogUnchanged

\* What the provider can report in a usage field: a count, absent counting as 0;
\* for the two cache fields, nothing or one token.
Counts == 0..MaxTokens
CacheCounts == 0..1
StartUsages == [input : Counts, cacheRead : CacheCounts, cacheCreate : CacheCounts]

\* The locals after a message_start whose output count adds up over the turns.
AfterStartKeepingOutput(l, u) ==
  [input |-> u.input, cacheRead |-> u.cacheRead, cacheCreate |-> u.cacheCreate,
   output |-> l.output]

\* The locals after message_start: the three input counts, and the output reset.
AfterStart(l, u) ==
  [input |-> u.input, cacheRead |-> u.cacheRead, cacheCreate |-> u.cacheCreate,
   output |-> 0]

\* stream_event / message_start with usage u
StreamMessageStart(e, u) ==
  /\ pc[e] \in {"turn", "final"} /\ Alive(e)
  /\ Len(usageEvents[e]) < MaxUsageEvents
  /\ lastTurnUsage' = [lastTurnUsage EXCEPT ![e] = AfterStart(@, u)]
  /\ usageEvents' = [usageEvents EXCEPT ![e] = Append(@, [type |-> "message_start", usage |-> u])]
  /\ sends' = <<>>
  /\ storeCalls' = <<>>
  /\ lastOp' = Op("message_start", "loop", e, 0)
  /\ LoopFields /\ UNCHANGED <<relayVars, otherVars, permVars, resultUsage>>
  /\ UNCHANGED <<sessionId, pendingQuestions, activeQuery, questionCounter, isRunning,
                 streamingText, pc, promptLogged, curTool, turnText, input, askId,
                 activeSessions, sessions, activeBashStream>>

\* stream_event / message_delta with usage.output_tokens n
StreamMessageDelta(e, n) ==
  /\ pc[e] \in {"turn", "final"} /\ Alive(e)
  /\ Len(usageEvents[e]) < MaxUsageEvents
  /\ lastTurnUsage' = [lastTurnUsage EXCEPT ![e].output = n]
  /\ usageEvents' = [usageEvents EXCEPT ![e] = Append(@, [type |-> "message_delta", output |-> n])]
  /\ sends' = <<>>
  /\ storeCalls' = <<>>
  /\ lastOp' = Op("message_delta", "loop", e, 0)
  /\ LoopFields /\ UNCHANGED <<relayVars, otherVars, permVars, resultUsage>>
  /\ UNCHANGED <<sessionId, pendingQuestions, activeQuery, questionCounter, isRunning,
                 streamingText, pc, promptLogged, curTool, turnText, input, askId,
                 activeSessions, sessions, activeBashStream>>

\* result
StreamResult(e) ==
  /\ pc[e] = "final" /\ Alive(e)
  /\ sends' = Send(e, ws[e], Msg("result", sessionId[e], NoText, 0))
  /\ storeCalls' =
       IF sessionId[e] # NoId
       THEN <<StoreCall("updateSessionActivity", sessionId[e], "", NoText, 0)>>
       ELSE <<>>
  /\ pc' = [pc EXCEPT ![e] = "result"]
  /\ lastOp' = Op("result", "loop", e, 0)
  /\ resultUsage' = [resultUsage EXCEPT ![e] = lastTurnUsage[e]]
  /\ LoopFields /\ UNCHANGED <<relayVars, otherVars, permVars, lastTurnUsage, usageEvents>>
  /\ UNCHANGED <<sessionId, pendingQuestions, activeQuery, questionCounter, isRunning,
                 streamingText, promptLogged, curTool, turnText, input, askId,
                 activeSessions, sessions, activeBashStream>>

\* After a result the provider goes on with a turn that was injected meanwhile.
StreamContinue(e) ==
  /\ pc[e] = "result" /\ Alive(e)
  /\ input[e] # <<>>
  /\ input' = [input EXCEPT ![e] = <<>>]
  /\ pc' = [pc EXCEPT ![e] = "turn"]
  /\ sends' = <<>>
  /\ storeCalls' = <<>>
  /\ lastOp' = Op("continue", "loop", e, 0)
  /\ LoopUnchanged /\ UNCHANGED permVars
  /\ UNCHANGED <<sessionId, pendingQuestions, activeQuery, questionCounter, isRunning,
                 streamingText, promptLogged, curTool, turnText, askId,
                 activeSessions, sessions, activeBashStream>>

\* runQuery's finally block, and the handler's .then() that runs right after it.
Finally(e) ==
  /\ isRunning' = [isRunning EXCEPT ![e] = FALSE]
  /\ activeQuery' = [activeQuery EXCEPT ![e] = FALSE]
  /\ pc' = [pc EXCEPT ![e] = "idle"]
  /\ depth' = [depth EXCEPT ![e] = @ - 1]
  /\ LET cur == activeSession[starter[e]]
         sid == IF cur = NoEngine THEN NoId ELSE sessionId[cur]
     IN activeSessions' =
          IF sid # NoId /\ activeSessions[sid] = cur
          THEN [activeSessions EXCEPT ![sid] = NoEngine]
          ELSE activeSessions
  /\ storeCalls' = <<>>
  \* the invocation's locals and its query object are gone
  /\ promptText' = [promptText EXCEPT ![e] = NoText]
  /\ resumeArg' = [resumeArg EXCEPT ![e] = NoId]
  /\ promptLogged' = [promptLogged EXCEPT ![e] = FALSE]
  /\ curTool' = [curTool EXCEPT ![e] = "none"]
  /\ closes' = [closes EXCEPT ![e] = 0]
  /\ turnText' = [turnText EXCEPT ![e] = NoText]
  /\ input' = [input EXCEPT ![e] = <<>>]
  /\ askId' = [askId EXCEPT ![e] = 0]
  /\ UNCHANGED <<born, ws, resumeHint, abortController>>
  /\ UNCHANGED <<activeSession, sockOpen, polling, starter>>
  /\ UNCHANGED <<sessionId, pendingQuestions, questionCounter, streamingText,
                 sessions>>
  /\ qFork' = [qFork EXCEPT ![e] = FALSE]
  /\ qResume' = [qResume EXCEPT ![e] = NoId]
  /\ UNCHANGED <<toolVars, forkFrom, replaces, cleared, forkedOf>>
  /\ ClosePerm(e)
  /\ lastTurnUsage' = [lastTurnUsage EXCEPT ![e] = NoUsage]
  /\ usageEvents' = [usageEvents EXCEPT ![e] = <<>>]
  /\ resultUsage' = [resultUsage EXCEPT ![e] = NoUsage]
  /\ UNCHANGED <<relayVars, otherVars>>

\* A catch block that swallows the error.
CatchSendsNone(e) == <<>>

\* The error event of runQuery's catch block.
CatchSends(e) == Send(e, ws[e], Msg("error", NoId, NoText, 0))

\* The stream ends: after the last result, or because the query was closed.
StreamEnd(e) ==
  /\ pc[e] # "idle"
  /\ pc[e] = "result" \/ ~Alive(e)
  /\ sends' = <<>>
  /\ lastOp' = Op("end", "loop", e, 0)
  /\ Finally(e)

\* The stream throws (provider fault at any point, or the abort error).
StreamError(e) ==
  /\ pc[e] # "idle"
  /\ sends' = CatchSends(e)
  /\ lastOp' = Op("error", "loop", e, 0)
  /\ Finally(e)

\* JSON.parse(text) returns.
ParsesAsJson(b) == b # "text"

\* handleMessage(msg): switch (msg.type) throws on null; the switch has no
\* default case.
HandleMessageThrows(b) == b = "null"

\* ws.on("message") of a direct connection with a text that is not a control
\* message: a failed JSON.parse and a handleMessage that throws are answered
\* with an error event; a message no case matches falls through the switch.
HandleRaw(c, b) ==
  /\ sockOpen[c]
  /\ b # "json"
  /\ sends' = IF ~ParsesAsJson(b) \/ HandleMessageThrows(b)
              THEN Send("handler", c, Msg("error", NoId, NoText, 0))
              ELSE <<>>
  /\ storeCalls' = <<>>
  /\ lastOp' = Op(b, c, NoEngine, 0)
  /\ UNCHANGED <<engineVars, loopVars, providerVars, handlerVars, toolVars, forkVars>>
  /\ UNCHANGED <<relayVars, sideVars>>

\* ------------------------------------------------------------ RelayClient
\* onStatusChange in the handler module: a pairing makes a fresh connection
\* handler, waiting_for_peer and disconnected drop it.
HandlerAfter(h, status) ==
  IF status = "paired" THEN TRUE
  ELSE IF status \in {"waiting_for_peer", "disconnected"} THEN FALSE
  ELSE h

\* A doubling without the ceiling.
NextDelayUncapped(d) == d * 2

\* Math.min(this.reconnectDelay * 2, 30000)
NextDelay(d) == IF d * 2 < MaxDelay THEN d * 2 ELSE MaxDelay

\* scheduleReconnect(), called with closed = FALSE while n timers are armed: one
\* more is armed with the current delay, then the delay is doubled.  The handle
\* of an older timer is overwritten, not cleared.
ScheduleReconnect(n) ==
  /\ rStatus' = "disconnected"
  /\ rTimers' = n + 1
  /\ rTimerDelay' = rDelay
  /\ rFails' = IF rFails < MaxFails THEN rFails + 1 ELSE MaxFails
  /\ rDelay' = NextDelay(rDelay)

\* connect() with closed = FALSE while n timers are armed: a new socket to the
\* broker, or a constructor that throws.
Connect(ok, n) ==
  /\ rAttempt' = 1 - rAttempt
  /\ IF ok
     THEN /\ rStatus' = "connecting"
          /\ rWs' = TRUE
          /\ rSock' = "connecting"
          /\ rHandler' = HandlerAfter(rHandler, "connecting")
          /\ rTimers' = n
          /\ UNCHANGED <<rDelay, rTimerDelay, rFails>>
     ELSE /\ ScheduleReconnect(n)
          /\ rHandler' = HandlerAfter(HandlerAfter(rHandler, "connecting"), "disconnected")
          /\ UNCHANGED <<rWs, rSock>>

\* connect() called by the owner of the client: startRelayClient's call, or a
\* call made after close(), which returns at once.
RelayStart(ok) ==
  /\ rSock = "none" /\ rTimers = 0
  /\ IF rClosed
     THEN UNCHANGED <<rStatus, rWs, rSock, rHandler, rDelay, rTimers, rTimerDelay,
                      rFails, rAttempt>>
     ELSE Connect(ok, rTimers)
  /\ lastOp' = Op(IF rClosed THEN "relay_connect_noop"
                  ELSE IF ok THEN "relay_start" ELSE "relay_connect_failed",
                  "relay", NoEngine, 0)
  /\ rFrame' = NoFrame /\ wire' = <<>> /\ inbox' = <<>>
  /\ UNCHANGED <<rKey, rVirtOpen, rClosed, ackSent>>
  /\ UNCHANGED <<engineVars, loopVars, providerVars, handlerVars, sends, storeCalls,
                 toolVars, forkVars, sideVars, rPeer>>

\* A reconnect timer fires: connect().
RelayTimerFire(ok) ==
  /\ rTimers > 0
  /\ IF rClosed
     THEN /\ rTimers' = rTimers - 1
          /\ UNCHANGED <<rStatus, rWs, rSock, rHandler, rDelay, rTimerDelay, rFails,
                         rAttempt>>
     ELSE Connect(ok, rTimers - 1)
  /\ lastOp' = Op(IF rClosed THEN "relay_connect_noop"
                  ELSE IF ok THEN "relay_timer" ELSE "relay_connect_failed",
                  "relay", NoEngine, 0)
  /\ rFrame' = NoFrame /\ wire' = <<>> /\ inbox' = <<>>
  /\ UNCHANGED <<rKey, rVirtOpen, rClosed, ackSent>>
  /\ UNCHANGED <<engineVars, loopVars, providerVars, handlerVars, sends, storeCalls,
                 toolVars, forkVars, sideVars, rPeer>>

\* ws.on("open")
RelaySockOpen ==
  /\ rSock = "connecting"
  /\ rSock' = "open"
  /\ rDelay' = InitialDelay
  /\ rFails' = 0
  /\ rStatus' = "waiting_for_peer"
  /\ rHandler' = HandlerAfter(rHandler, "waiting_for_peer")
  /\ lastOp' = Op("relay_open", "relay", NoEngine, 0)
  /\ rFrame' = NoFrame /\ wire' = <<>> /\ inbox' = <<>>
  /\ UNCHANGED <<rKey, rWs, rVirtOpen, rClosed, rTimers, rTimerDelay, rAttempt, ackSent>>
  /\ rPeer' = FALSE
  /\ UNCHANGED <<engineVars, loopVars, providerVars, handlerVars, sends, storeCalls,
                 toolVars, forkVars, sideVars>>

\* ws.on("error"): logged; the socket's close event follows.
RelaySockError ==
  /\ rSock \in {"connecting", "open", "closing", "aborted"}
  /\ rSock' = "errored"
  /\ lastOp' = Op("relay_error", "relay", NoEngine, 0)
  /\ rFrame' = NoFrame /\ wire' = <<>> /\ inbox' = <<>>
  /\ UNCHANGED <<rStatus, rKey, rWs, rVirtOpen, rClosed, rTimers, rTimerDelay, rFails,
                 rAttempt, rPeer, rDelay, rHandler, ackSent>>
  /\ UNCHANGED <<engineVars, loopVars, providerVars, handlerVars, sends, storeCalls,
                 toolVars, forkVars, sideVars>>

\* A close handler that never reconnects.
ReconnectsNever == FALSE

\* ws.on("close"): if (!this.closed) this.scheduleReconnect()
ReconnectsOnClose == ~rClosed

\* ws.on("close"): the socket is gone, whoever closed it.
RelaySockClose ==
  /\ rSock # "none"
  /\ rSock' = "none"
  /\ rWs' = FALSE
  /\ rKey' = NoKey
  /\ rVirtOpen' = FALSE
  /\ ackSent' = FALSE
  /\ rHandler' = HandlerAfter(rHandler, "disconnected")
  /\ IF ReconnectsOnClose
     THEN ScheduleReconnect(rTimers)
     ELSE rStatus' = "disconnected" /\ UNCHANGED <<rTimers, rTimerDelay, rFails, rDelay>>
  /\ lastOp' = Op("relay_close_event", "relay", NoEngine, 0)
  /\ rFrame' = NoFrame /\ wire' = <<>> /\ inbox' = <<>>
  /\ UNCHANGED <<rClosed, rAttempt>>
  /\ rPeer' = FALSE
  /\ UNCHANGED <<engineVars, loopVars, providerVars, handlerVars, sends, storeCalls,
                 toolVars, forkVars, sideVars>>

\* A close() that leaves the armed timer alone.
TimersKept(n) == n

\* close(): clearTimeout(this.reconnectTimer) cancels the timer armed last.
TimersAfterClose(n) == IF n > 0 THEN n - 1 ELSE 0

\* close(): stop reconnecting and start closing the socket; its events still
\* arrive until the socket's close event.
RelayClose ==
  /\ rClosed' = TRUE
  /\ rTimers' = TimersAfterClose(rTimers)
  /\ rSock' = IF rWs /\ rSock = "open" THEN "closing"
              ELSE IF rWs /\ rSock = "connecting" THEN "aborted"
              ELSE rSock
  /\ rWs' = FALSE
  /\ rStatus' = "disconnected"
  /\ rHandler' = HandlerAfter(rHandler, "disconnected")
  /\ lastOp' = Op("relay_close", "relay", NoEngine, 0)
  /\ rFrame' = NoFrame /\ wire' = <<>> /\ inbox' = <<>>
  /\ UNCHANGED <<rKey, rVirtOpen, rDelay, rTimerDelay, rFails, rAttempt, ackSent>>
  /\ UNCHANGED <<engineVars, loopVars, providerVars, handlerVars, sends, storeCalls,
                 toolVars, forkVars, sideVars, rPeer>>

\* A frame written to the broker socket.
WireFrame(kind, enc, key) == [kind |-> kind, enc |-> enc, key |-> key]

\* An acknowledgment that goes through send(), hence sealed for the stored key.
AckSealed(hasWs, key) ==
  IF hasWs THEN <<WireFrame("key_exchange_ack", TRUE, key)>> ELSE <<>>

\* if (this.ws) this.ws.send(JSON.stringify({ type: "key_exchange_ack" }))
AckFrames(hasWs, key) ==
  IF hasWs THEN <<WireFrame("key_exchange_ack", FALSE, NoKey)>> ELSE <<>>

\* A peer_disconnected handler that keeps the peer key.
DisconnectKeepsKey(k) == k

\* peer_disconnected: this.phonePublicKey = null
KeyAfterPeerDisconnected(k) == NoKey

\* A decryption that does not test the result of nacl.box.open.
DecryptsUnchecked(f, key) == f.by = key

\* decrypt(envelope, theirPublicKey, mySecretKey): the box opens when it was
\* sealed by the holder of theirPublicKey and is intact.
Decrypts(f, key) == f.by = key /\ f.seal = "good"

\* The frame is handed to onMessage: decrypted, then parsed as JSON.
Delivers(f) == rKey # NoKey /\ Decrypts(f, rKey) /\ ParsesAsJson(f.body)

\* relayConnectionHandler.sendJson(...) through the virtual transport and
\* RelayClient.send.
RelayReply(kind) ==
  IF ~rVirtOpen \/ ~rWs \/ rSock # "open" THEN <<>>
  ELSE IF rKey # NoKey THEN <<WireFrame(kind, TRUE, rKey)>>
  ELSE <<WireFrame(kind, FALSE, NoKey)>>

\* ws.on("message"): JSON.parse and handleRelayMessage inside a try block.
RelayMessage(f) ==
  /\ rSock \in {"open", "closing"}
  /\ rFrame' = f
  /\ lastOp' = Op(f.type, "relay", NoEngine, 0)
  /\ IF f.type = "peer_connected"
     THEN /\ rStatus' = "waiting_for_peer"
          /\ rHandler' = HandlerAfter(rHandler, "waiting_for_peer")
          /\ wire' = <<>> /\ inbox' = <<>>
          /\ UNCHANGED <<rKey, rVirtOpen, ackSent>>
     ELSE IF f.type = "peer_disconnected"
     THEN /\ rKey' = KeyAfterPeerDisconnected(rKey)
          /\ rVirtOpen' = FALSE
          /\ rStatus' = "waiting_for_peer"
          /\ rHandler' = HandlerAfter(rHandler, "waiting_for_peer")
          /\ ackSent' = FALSE
          /\ wire' = <<>> /\ inbox' = <<>>
     ELSE IF f.type = "key_exchange" /\ f.pubkey # NoKey
     THEN /\ rKey' = f.pubkey
          /\ rStatus' = "paired"
          /\ rHandler' = HandlerAfter(rHandler, "paired")
          /\ rVirtOpen' = TRUE
          /\ wire' = AckFrames(rWs, f.pubkey)
          /\ ackSent' = rWs
          /\ inbox' = <<>>
     ELSE IF f.type = "encrypted" /\ Delivers(f)
     THEN /\ inbox' = <<f>>
          /\ rHandler' = TRUE
          /\ wire' = IF HandleMessageThrows(f.body) THEN RelayReply("error") ELSE <<>>
          /\ UNCHANGED <<rStatus, rKey, rVirtOpen, ackSent>>
     ELSE \* not JSON, fromBase64 throws, no key, decrypt or parse throws, unknown type
          /\ wire' = <<>> /\ inbox' = <<>>
          /\ UNCHANGED <<rStatus, rKey, rVirtOpen, rHandler, ackSent>>
  /\ rPeer' = IF f.type = "peer_connected" THEN TRUE
              ELSE IF f.type = "peer_disconnected" THEN FALSE
              ELSE rPeer
  /\ UNCHANGED <<rWs, rSock, rClosed, rTimers, rTimerDelay, rFails, rAttempt, rDelay>>
  /\ UNCHANGED <<engineVars, loopVars, providerVars, handlerVars, sends, storeCalls,
                 toolVars, forkVars, sideVars>>

\* A sender that does not look at the transport's readyState.
VirtualSendUnchecked == TRUE

\* ClaudeSession.send, sendJson and sendRaw: send only on an OPEN transport.
VirtualSendChecked == rVirtOpen

\* RelayClient.send(msg): nothing without an open socket, an envelope when a
\* peer key is stored, plaintext otherwise.
RelaySendFrames ==
  IF ~rWs \/ rSock # "open" THEN <<>>
  ELSE IF rKey # NoKey THEN <<WireFrame("app", TRUE, rKey)>>
  ELSE <<WireFrame("app", FALSE, NoKey)>>

\* A session or a connection handler that holds the virtual transport sends an
\* application frame.
RelayAppSend ==
  /\ wire' = IF VirtualSendChecked THEN RelaySendFrames ELSE <<>>
  /\ lastOp' = Op("relay_app_send", "relay", NoEngine, 0)
  /\ rFrame' = NoFrame /\ inbox' = <<>>
  /\ UNCHANGED <<rStatus, rKey, rWs, rSock, rVirtOpen, rClosed, rTimers, rTimerDelay,
                 rFails, rAttempt, rDelay,
                 rHandler, ackSent>>
  /\ UNCHANGED <<engineVars, loopVars, providerVars, handlerVars, sends, storeCalls,
                 toolVars, forkVars, sideVars, rPeer>>

\* ----------------------------------------------------------- relay-crypto
\* Key pairs, named by their owner; each has a public and a secret half.
KeyOwners == {"A", "B", "C"}

\* UTF-16 code units of a plaintext: a letter, the null character, a byte
\* order mark, a high and a low surrogate, and the replacement character.
InputUnits == {"a", "nul", "bom", "hi", "lo"}

RECURSIVE StringsUpTo(_)
StringsUpTo(n) ==
  IF n = 0 THEN {<<>>}
  ELSE LET shorter == StringsUpTo(n - 1)
       IN shorter \cup {Append(t, u) : t \in {x \in shorter : Len(x) = n - 1},
                                       u \in InputUnits}
Plaintexts == StringsUpTo(MaxTextLen)

\* new TextEncoder().encode(message): the string is read as scalar values, a
\* surrogate pair as one, an unpaired surrogate as U+FFFD, then written as UTF-8.
RECURSIVE Encode(_)
Encode(t) ==
  IF t = <<>> THEN <<>>
  ELSE IF Head(t) = "hi" /\ Len(t) >= 2 /\ t[2] = "lo"
       THEN <<"pair">> \o Encode(Tail(Tail(t)))
  ELSE IF Head(t) \in {"hi", "lo"} THEN <<"fffd">> \o Encode(Tail(t))
  ELSE <<Head(t)>> \o Encode(Tail(t))

RECURSIVE Units(_)
Units(b) ==
  IF b = <<>> THEN <<>>
  ELSE IF Head(b) = "pair" THEN <<"hi", "lo">> \o Units(Tail(b))
  ELSE <<Head(b)>> \o Units(Tail(b))

\* new TextDecoder().decode(bytes): a leading byte order mark is dropped.
Decode(b) == IF b # <<>> /\ Head(b) = "bom" THEN Units(Tail(b)) ELSE Units(b)

\* The secret nacl.box derives from a public key and a secret key is the same
\* for (pub of x, sec of y) and (pub of y, sec of x).
SharedKey(pubOf, secOf) == {pubOf, secOf}

\* encrypt(message, theirPublicKey, mySecretKey): a fresh nonce, the encoded
\* message boxed, both fields in base64.
Encrypt(t, pubOf, secOf) ==
  [shape |-> "ok", key |-> SharedKey(pubOf, secOf), data |-> Encode(t), intact |-> TRUE]

\* A box that opens under any key.
BoxOpensAnyKey(env, pubOf, secOf) == env.intact

\* nacl.box.open: the authenticator verifies under the derived secret.
BoxOpens(env, pubOf, secOf) == env.intact /\ env.key = SharedKey(pubOf, secOf)

\* decrypt(envelope, theirPublicKey, mySecretKey): Buffer.from throws a
\* TypeError on a missing field, nacl throws on a nonce of the wrong length,
\* a box that does not open throws "Decryption failed".
Decrypt(env, pubOf, secOf) ==
  IF env.shape = "no_fields" THEN [kind |-> "type_error", text |-> <<>>]
  ELSE IF env.shape = "short_nonce" THEN [kind |-> "bad_nonce_size", text |-> <<>>]
  ELSE IF ~BoxOpens(env, pubOf, secOf) THEN [kind |-> "decryption_failed", text |-> <<>>]
  ELSE [kind |-> "ok", text |-> Decode(env.data)]

\* The inputs: any plaintext, any sender and any recipient.
InitBox ==
  /\ boxMsg \in Plaintexts
  /\ boxFrom \in KeyOwners
  /\ boxTo \in KeyOwners
  /\ boxEnv = NoEnvelope
  /\ boxWith = <<"A", "A">>
  /\ boxOut = NoOutcome
  /\ boxPhase = "input"

BoxUnchanged ==
  UNCHANGED <<engineVars, loopVars, providerVars, handlerVars, stepVars, toolVars,
              forkVars, relayVars, keyFileVars, permVars, useVars, tailVars,
              usageVars>>

\* The sender calls encrypt.
BoxEncrypt ==
  /\ boxPhase = "input"
  /\ boxEnv' = Encrypt(boxMsg, boxTo, boxFrom)
  /\ boxPhase' = "sealed"
  /\ UNCHANGED <<boxMsg, boxFrom, boxTo, boxWith, boxOut>>
  /\ BoxUnchanged

\* The envelope is altered on its way: a ciphertext byte flipped, the nonce cut
\* short, or the fields removed.
BoxTamper(how) ==
  /\ boxPhase = "sealed"
  /\ boxEnv.shape = "ok" /\ boxEnv.intact
  /\ boxEnv' = IF how = "flip" THEN [boxEnv EXCEPT !.intact = FALSE]
               ELSE [boxEnv EXCEPT !.shape = how]
  /\ UNCHANGED <<boxMsg, boxFrom, boxTo, boxWith, boxOut, boxPhase>>
  /\ BoxUnchanged

\* Somebody calls decrypt with a public key and a secret key.
BoxDecrypt(pubOf, secOf) ==
  /\ boxPhase = "sealed"
  /\ boxOut' = Decrypt(boxEnv, pubOf, secOf)
  /\ boxWith' = <<pubOf, secOf>>
  /\ boxPhase' = "opened"
  /\ UNCHANGED <<boxMsg, boxFrom, boxTo, boxEnv>>
  /\ BoxUnchanged

\* ------------------------------------------------------- the key pair file
\* The file-creation masks a process can run under.
Umasks == {"022", "027", "077"}

\* The permission bits of a file created with mode 0o666 under a mask.
DefaultMode(umask) ==
  IF umask = "022" THEN "644" ELSE IF umask = "027" THEN "640" ELSE "600"

\* setup script: fs.writeFileSync(keysFile, ...) without a mode option.
SetupMode(umask) == DefaultMode(umask)

\* loadOrCreateKeyPair: fs.writeFileSync(configPath, ..., { mode: 0o600 }); no
\* mask sets a bit.
ServerMode(umask) == "600"

ModeOf(p, umask) == IF p = "server" THEN ServerMode(umask) ELSE SetupMode(umask)

\* One run of loadOrCreateKeyPair (server start-up) or of the setup script's
\* "generate or load" block: read the file if it exists, else generate a pair
\* and write it.
LoadOrCreate(p, umask) ==
  /\ keyRuns[p] < MaxLoads
  /\ keyRuns' = [keyRuns EXCEPT ![p] = @ + 1]
  /\ IF kfPair # 0
     THEN /\ keyGot' = [keyGot EXCEPT ![p] = kfPair]
          /\ UNCHANGED <<kfPair, kfMode, kfWrites>>
     ELSE /\ kfPair' = kfWrites + 1
          /\ kfMode' = ModeOf(p, umask)
          /\ kfWrites' = kfWrites + 1
          /\ keyGot' = [keyGot EXCEPT ![p] = kfWrites + 1]
  /\ lastOp' = Op("load_keys", p, NoEngine, 0)
  /\ sends' = <<>> /\ storeCalls' = <<>>
  /\ UNCHANGED kfResets
  /\ UNCHANGED <<engineVars, loopVars, providerVars, handlerVars, toolVars, forkVars,
                 relayVars, cryptoVars, permVars, useVars, tailVars, usageVars>>

\* The installer run with -ResetPairing removes the file before the setup
\* script runs.
ResetPairing ==
  /\ kfResets < MaxResets
  /\ kfResets' = kfResets + 1
  /\ kfPair' = 0
  /\ kfMode' = "none"
  /\ lastOp' = Op("reset_pairing", "setup", NoEngine, 0)
  /\ sends' = <<>> /\ storeCalls' = <<>>
  /\ UNCHANGED <<kfWrites, keyGot, keyRuns>>
  /\ UNCHANGED <<engineVars, loopVars, providerVars, handlerVars, toolVars, forkVars,
                 relayVars, cryptoVars, permVars, useVars, tailVars, usageVars>>

\* ------------------------------------------------------------ specification
\* The session ids a client can name in a prompt: none, or one it was told of.
MsgSids == {NoId} \cup sessions

\* The engine a prompt of connection c goes to.
PromptTarget(c) == IF activeSession[c] = NoEngine THEN FreshEngine ELSE activeSession[c]

\* Spec: one client connection with the messages that control sessions and
\* answer questions.  The client can switch between two engine instances;
\* queries are run on the first one, the second one is the session the client
\* switches to and back from.
Clients == {"c1"}
Runners == {"e1"}

Next ==
  \/ \E c \in Clients : HandleNewSession(c)
  \/ \E c \in Clients, sid \in SessionIds : HandleResumeSession(c, sid)
  \/ \E c \in Clients, t \in Texts, sid \in MsgSids :
        PromptTarget(c) \in Runners /\ HandlePrompt(c, t, sid)
  \/ \E c \in Clients, q \in QIds : HandleAnswer(c, q)
  \/ \E c \in Clients : HandleAbort(c)
  \/ \E c \in Clients : SocketClose(c)
  \/ \E c \in Clients : PollTick(c)
  \/ \E e \in Engines : StreamInit(e)
  \/ \E e \in Engines, d \in DeltaTexts : StreamDelta(e, d)
  \/ \E e \in Engines, tool \in AskTools : StreamAssistant(e, tool)
  \/ \E e \in Engines : CanUseToolAsk(e)
  \/ \E e \in Engines, out \in ShortOutputs : StreamToolResult(e, out, FALSE)
  \/ \E e \in Engines : StreamResult(e)
  \/ \E e \in Engines : StreamContinue(e)
  \/ \E e \in Engines : StreamEnd(e)
  \/ \E e \in Engines : StreamError(e)

Spec == Init /\ [][Next]_vars

\* SpecShare: two client connections attached to the same engine instance (the
\* second one by resuming the session the first one started).
NextShare ==
  \/ \E c \in Conns, t \in Texts :
        PromptTarget(c) \in Runners /\ HandlePrompt(c, t, NoId)
  \/ \E c \in Conns, sid \in SessionIds :
        activeSessions[sid] \in Runners /\ HandleResumeSession(c, sid)
  \/ \E c \in Conns : HandleAbort(c)
  \/ \E c \in Conns : SocketClose(c)
  \/ \E c \in Conns : PollTick(c)
  \/ \E c \in Conns : PollTimeout(c)
  \/ \E e \in Engines : StreamInit(e)
  \/ \E e \in Engines, tool \in Tools : StreamAssistant(e, tool)
  \/ \E e \in Engines, out \in ShortOutputs : StreamToolResult(e, out, FALSE)
  \/ \E e \in Engines : StreamResult(e)
  \/ \E e \in Engines : StreamContinue(e)
  \/ \E e \in Engines : StreamEnd(e)
  \/ \E e \in Engines : StreamError(e)

SpecShare == Init /\ [][NextShare]_vars

\* Once the query is closed the provider's iterator finishes, by ending or by
\* throwing, so the for-await loop is left.
LoopExitClosed(e) == ~Alive(e) /\ (StreamEnd(e) \/ StreamError(e))

\* SpecLive: one client that prompts, answers, aborts and disconnects, with the
\* event loop running every loop exit that is due.
NextLive ==
  \/ \E c \in Clients, t \in Texts :
        PromptTarget(c) \in Runners /\ HandlePrompt(c, t, NoId)
  \/ \E c \in Clients, q \in QIds : HandleAnswer(c, q)
  \/ \E c \in Clients : HandleAbort(c)
  \/ \E c \in Clients : SocketClose(c)
  \/ \E e \in Engines : StreamInit(e)
  \/ \E e \in Engines, tool \in AskTools : StreamAssistant(e, tool)
  \/ \E e \in Engines : CanUseToolAsk(e)
  \/ \E e \in Engines, out \in ShortOutputs : StreamToolResult(e, out, FALSE)
  \/ \E e \in Engines : StreamResult(e)
  \/ \E e \in Engines : StreamContinue(e)
  \/ \E e \in Engines : StreamEnd(e)
  \/ \E e \in Engines : StreamError(e)

SpecLive ==
  Init /\ [][NextLive]_vars /\ \A e \in Engines : WF_vars(LoopExitClosed(e))

\* SpecTools: one client whose prompts make the provider run shell commands; the
\* client aborts and asks to stop tasks, the watcher timer ticks.
NextTools ==
  \/ \E c \in Clients, t \in Texts :
        PromptTarget(c) \in Runners /\ HandlePrompt(c, t, NoId)
  \/ \E c \in Clients : HandleAbort(c)
  \/ \E c \in Clients, t \in TaskIds : HandleStopTask(c, t)
  \/ \E e \in Engines : StreamInit(e)
  \/ \E e \in Engines, tool \in BashTools : StreamAssistant(e, tool)
  \/ \E e \in Engines, out \in ShortOutputs, bg \in BOOLEAN : StreamToolResult(e, out, bg)
  \/ \E e \in Engines : WatcherTick(e)
  \/ \E e \in Engines : StreamResult(e)
  \/ \E e \in Engines : StreamContinue(e)
  \/ \E e \in Engines : StreamEnd(e)
  \/ \E e \in Engines : StreamError(e)

SpecTools == Init /\ [][NextTools]_vars

\* SpecChunk: one query whose shell commands return outputs of every length up
\* to MaxOutLen.
NextChunk ==
  \/ \E c \in Clients, t \in Texts :
        PromptTarget(c) \in Runners /\ HandlePrompt(c, t, NoId)
  \/ \E e \in Engines : StreamInit(e)
  \/ \E e \in Engines, tool \in BashTools : StreamAssistant(e, tool)
  \/ \E e \in Engines, out \in AllOutputs : StreamToolResult(e, out, FALSE)
  \/ \E e \in Engines : StreamResult(e)
  \/ \E e \in Engines : StreamContinue(e)
  \/ \E e \in Engines : StreamEnd(e)

SpecChunk == Init /\ [][NextChunk]_vars

\* SpecFork: one client that prompts under any session id it knows, forks
\* sessions and clears their context; queries run on both engine instances.
\* The registration interval does not tick, so no engine is in the registry.
NextFork ==
  \/ \E c \in Clients, t \in Texts, sid \in MsgSids : HandlePrompt(c, t, sid)
  \/ \E c \in Clients, sid \in SessionIds : HandleForkSession(c, sid)
  \/ \E c \in Clients, sid \in SessionIds : HandleClearContext(c, sid)
  \/ \E c \in Clients : HandleAbort(c)
  \/ \E e \in Engines : StreamInit(e)
  \/ \E e \in Engines : StreamAssistant(e, "none")
  \/ \E e \in Engines : StreamResult(e)
  \/ \E e \in Engines : StreamContinue(e)
  \/ \E e \in Engines : StreamEnd(e)
  \/ \E e \in Engines : StreamError(e)

SpecFork == Init /\ [][NextFork]_vars

\* SpecRelay: the relay tunnel with its broker socket, the frames the broker can
\* deliver, application frames sent through the virtual transport, and close().
NextRelay ==
  \/ \E ok \in BOOLEAN : RelayStart(ok)
  \/ \E ok \in BOOLEAN : RelayTimerFire(ok)
  \/ RelaySockOpen
  \/ RelaySockError
  \/ RelaySockClose
  \/ RelayClose
  \/ \E f \in Frames : RelayMessage(f)
  \/ RelayAppSend

SpecRelay == Init /\ [][NextRelay]_vars

\* SpecInbound: the relay tunnel next to one direct connection that receives
\* texts that are not control messages.
NextInbound ==
  \/ NextRelay
  \/ \E b \in Bodies : HandleRaw("c1", b)

SpecInbound == Init /\ [][NextInbound]_vars

\* SpecCrypto: encrypt and decrypt applied to every plaintext up to MaxTextLen
\* code units, every sender and recipient, every pair of keys at decrypt, with
\* the envelope intact or altered.
NextCrypto ==
  \/ BoxEncrypt
  \/ \E how \in {"flip", "short_nonce", "no_fields"} : BoxTamper(how)
  \/ \E x \in KeyOwners, y \in KeyOwners : BoxDecrypt(x, y)

\* The start of SpecCrypto: the program at start-up, with the inputs of the call.
InitCryptoInputs == InitBase /\ InitBox /\ InitKeyFile /\ InitPerm /\ InitUses /\ InitTail /\ InitUsage

SpecCrypto == InitCryptoInputs /\ [][NextCrypto]_vars

\* SpecKeys: runs of the server start-up and of the setup script against one
\* key pair file, under any file-creation mask, with the installer's reset.
NextKeys ==
  \/ \E p \in Components, u \in Umasks : LoadOrCreate(p, u)
  \/ ResetPairing

SpecKeys == Init /\ [][NextKeys]_vars

\* SpecAsk: one client and one engine on a server with up to MaxPlugins
\* plugins: tool calls that ask a question, with any input, any interceptor
\* results and any answers.
NextAsk ==
  \/ \E c \in Clients, t \in Texts :
        PromptTarget(c) \in Runners /\ HandlePrompt(c, t, NoId)
  \/ \E c \in Clients, q \in QIds, a \in Answers, mw \in BOOLEAN :
        HandleAnswerWith(c, q, a, mw)
  \/ \E c \in Clients : HandleAbort(c)
  \/ \E e \in Engines : StreamInit(e)
  \/ \E e \in Engines, tool \in AskTools : StreamAssistant(e, tool)
  \/ \E e \in Engines, inp \in ToolInputs, res \in PluginResultLists :
        CanUseTool(e, inp, res)
  \/ \E e \in Engines, out \in ShortOutputs : StreamToolResult(e, out, FALSE)
  \/ \E e \in Engines : StreamResult(e)
  \/ \E e \in Engines : StreamEnd(e)
  \/ \E e \in Engines : StreamError(e)

SpecAsk == Init /\ [][NextAsk]_vars

\* SpecPlan: queries whose turns call the plan-approval tool, answered by the
\* clients with either option, with typed text or with an empty answer map.
NextPlan ==
  \/ \E c \in Clients, t \in Texts :
        PromptTarget(c) \in Runners /\ HandlePrompt(c, t, NoId)
  \/ \E c \in Clients, q \in QIds, a \in PlanAnswers, mw \in BOOLEAN :
        HandleAnswerWith(c, q, a, mw)
  \/ \E c \in Clients : HandleAbort(c)
  \/ \E e \in Engines : StreamInit(e)
  \/ \E e \in Engines, tool \in PlanTools : StreamAssistant(e, tool)
  \/ \E e \in Engines, res \in PluginResultLists : CanUseTool(e, "in1", res)
  \/ \E e \in Engines, out \in ShortOutputs : StreamToolResult(e, out, FALSE)
  \/ \E e \in Engines : StreamResult(e)
  \/ \E e \in Engines : StreamEnd(e)
  \/ \E e \in Engines : StreamError(e)

SpecPlan == Init /\ [][NextPlan]_vars

\* SpecRegistry: two client connections that start, resume and leave sessions
\* while queries run on either engine instance and the registration interval
\* ticks at any moment.  Prompts go to instances that are not running (no
\* message is injected into a running query).
NextRegistry ==
  \/ \E c \in Conns : HandleNewSession(c)
  \/ \E c \in Conns, sid \in SessionIds : HandleResumeSession(c, sid)
  \/ \E c \in Conns, t \in Texts :
        ~isRunning[PromptTarget(c)] /\ HandlePrompt(c, t, NoId)
  \/ \E c \in Conns : PollTick(c)
  \/ \E c \in Conns : PollTimeout(c)
  \/ \E e \in Engines : StreamInit(e)
  \/ \E e \in Engines : StreamAssistant(e, "none")
  \/ \E e \in Engines : StreamResult(e)
  \/ \E e \in Engines : StreamEnd(e)

SpecRegistry == Init /\ [][NextRegistry]_vars

\* SpecUsage: queries, one at a time, whose stream carries message_start and
\* message_delta events with any counts, in any order.
NextUsage ==
  \/ \E c \in Clients, t \in Texts :
        /\ PromptTarget(c) \in Runners
        /\ \A e \in Engines : ~isRunning[e]
        /\ HandlePrompt(c, t, NoId)
  \/ \E e \in Engines : StreamInit(e)
  \/ \E e \in Engines, u \in StartUsages : StreamMessageStart(e, u)
  \/ \E e \in Engines, n \in Counts : StreamMessageDelta(e, n)
  \/ \E e \in Engines : StreamAssistant(e, "none")
  \/ \E e \in Engines : StreamResult(e)
  \/ \E e \in Engines : StreamEnd(e)

SpecUsage == Init /\ [][NextUsage]_vars

\* SpecLog: queries that run shell commands one after another, each wrapped by
\* the hook; the watcher's interval ticks at any moment.
NextLog ==
  \/ \E c \in Clients, t \in Texts :
        PromptTarget(c) \in Runners /\ HandlePrompt(c, t, NoId)
  \/ \E e \in Engines : StreamInit(e)
  \/ \E e \in Engines, tool \in BashTools : StreamAssistant(e, tool)
  \/ \E e \in Engines : HookTruncate(e)
  \/ \E e \in Engines : CommandWrites(e)
  \/ \E e \in Engines : WatcherPoll(e)
  \/ \E e \in Engines, out \in ShortOutputs : StreamToolResult(e, out, FALSE)
  \/ \E e \in Engines : StreamResult(e)
  \/ \E e \in Engines : StreamEnd(e)

SpecLog == Init /\ [][NextLog]_vars

\* SpecWatch: one query whose assistant messages carry up to MaxUses tool_use
\* blocks, shell commands among them, with the results arriving in any order.
NextWatch ==
  \/ \E c \in Clients, t \in Texts :
        PromptTarget(c) \in Runners /\ HandlePrompt(c, t, NoId)
  \/ \E c \in Clients : HandleAbort(c)
  \/ \E e \in Engines : StreamInit(e)
  \/ \E e \in Engines : StreamAssistant(e, "none")
  \/ \E e \in Engines, names \in UseLists : StreamAssistantUses(e, names)
  \/ \E e \in Engines, i \in 1..MaxUses, out \in ShortOutputs, bg \in BOOLEAN :
        StreamUseResult(e, i, out, bg)
  \/ \E e \in Engines : WatcherTick(e)
  \/ \E e \in Engines : StreamResult(e)
  \/ \E e \in Engines : StreamEnd(e)
  \/ \E e \in Engines : StreamError(e)

SpecWatch == Init /\ [][NextWatch]_vars

\* SpecBg: SpecWatch with a client that asks to stop tasks by tool-use id.
NextBg ==
  \/ NextWatch
  \/ \E c \in Clients, t \in TaskIds : HandleStopTask(c, t)

SpecBg == Init /\ [][NextBg]_vars

\* SpecRelayLive: SpecRelay where an armed timer fires and the close event of a
\* socket that failed or was closed locally arrives.
SpecRelayLive ==
  /\ Init /\ [][NextRelay]_vars
  /\ WF_vars(\E ok \in BOOLEAN : RelayTimerFire(ok))
  /\ WF_vars(rSock \in {"errored", "closing", "aborted"} /\ RelaySockClose)

\* --------------------------------------------------------------- properties
\* The send() calls of the last step made by engine e.
EngineSends(e) == SelectSeq(sends, LAMBDA x : x.from = e)

\* The history entries of the given role written by the last step.
HistoryCalls(role) ==
  SelectSeq(storeCalls, LAMBDA x : x.fn = "appendHistory" /\ x.role = role)

\* C1: at any time at most one query is in progress on an engine instance:
\* runQuery is never entered on an instance whose previous invocation has not
\* returned, whatever the connections attached to it send.
C1_OneQueryPerEngine == \A e \in Engines : depth[e] <= 1

\* A second connection's prompt reaches an engine that is still running after
\* its query was closed by abort().
C1_Witness ==
  /\ lastOp.op = "prompt_inject" /\ lastOp.conn = "c2" /\ lastOp.eng = "e1"
  /\ activeSession["c1"] = "e1"
  /\ isRunning["e1"] /\ ~activeQuery["e1"] /\ depth["e1"] = 1

\* C2: a prompt that arrives while the engine's running flag is set starts no
\* second query; its text is handed to the query in flight as an injected user
\* turn and is appended to the persisted history at once.
C2_InjectedAndLogged ==
  [][\A e \in Engines :
       (lastOp'.eng = e /\ lastOp'.op \in {"prompt_inject", "prompt_run"} /\ isRunning[e]) =>
         /\ depth'[e] = depth[e]
         /\ \E t \in Texts :
              /\ input'[e] = Append(input[e], t)
              /\ HistoryCalls("user")' =
                   <<StoreCall("appendHistory", sessionId[e], "user", t, 0)>>
              /\ sessionId[e] # NoId]_vars

\* C3: when abort() is called on a running engine, also one whose loop is
\* suspended on a question nobody answers, runQuery returns and the engine is
\* idle again.
C3_AbortReturns ==
  \A e \in Engines :
    (lastOp.op = "abort" /\ lastOp.eng = e /\ isRunning[e]) ~> (~isRunning[e] /\ pc[e] = "idle")

\* abort() has just been called on an engine suspended on a pending question.
C3_Witness ==
  \E e \in Engines :
    /\ lastOp.op = "abort" /\ lastOp.eng = e
    /\ isRunning[e] /\ pc[e] = "asking" /\ askId[e] \in PendingIds(e)

\* C4: abort() is idempotent: after it the abort token is signalled and no
\* active query is held, a further call changes nothing, and a query is closed
\* at most once.
C4_AbortIdempotent ==
  \A e \in Engines :
    /\ AbortOn(AbortOn(AbortView(e))) = AbortOn(AbortView(e))
    /\ closes[e] <= 1
    /\ (lastOp.op = "abort" /\ lastOp.eng = e) =>
         /\ ~activeQuery[e]
         /\ abortController[e] # "armed"
         /\ AbortOn(AbortView(e)) = AbortView(e)

\* abort() has closed the query of a running engine.
C4_Witness ==
  \E e \in Engines :
    /\ lastOp.op = "abort" /\ lastOp.eng = e
    /\ isRunning[e] /\ closes[e] = 1 /\ abortController[e] = "aborted"

\* C5: resolveQuestion(id) resolves the pending question with that id and
\* removes it, leaving every other pending question as it was; for an id that
\* is not pending it changes nothing and wakes nobody.
C5_ResolveExactlyThatId ==
  [][\A e \in Engines :
       (lastOp'.op = "answer" /\ lastOp'.eng = e) =>
         LET q == lastOp'.qid IN
           IF q \in PendingIds(e)
           THEN /\ pendingQuestions'[e] =
                     SelectSeq(pendingQuestions[e], LAMBDA x : x.questionId # q)
                /\ (pc[e] = "asking" /\ askId[e] = q) => pc'[e] = "allowed"
                /\ ~(pc[e] = "asking" /\ askId[e] = q) => (pc'[e] = pc[e] /\ askId'[e] = askId[e])
           ELSE /\ UNCHANGED <<engineVars, loopVars, providerVars>>
                /\ storeCalls' = <<>>
                /\ sends' = <<>>]_vars

\* An answer has woken the suspended call while another question stays pending.
C5_Witness ==
  \E e \in Engines :
    /\ lastOp.op = "answer" /\ lastOp.eng = e
    /\ pc[e] = "allowed"
    /\ lastOp.qid \notin PendingIds(e)
    /\ PendingIds(e) # {}

\* C6: every question id has at most one pending entry, and a new question never
\* takes the id of one issued before (the counter only grows, across queries);
\* an entry leaves the pending set only through an explicit answer for its id,
\* so abort, the end or failure of a query and transport swaps leave it as it is.
C6_PendingOnlyAnswered ==
  [][\A e \in Engines :
       /\ questionCounter'[e] >= questionCounter[e]
       /\ \A i, j \in DOMAIN pendingQuestions'[e] :
            pendingQuestions'[e][i].questionId = pendingQuestions'[e][j].questionId => i = j
       /\ \A q \in PendingIds(e)' : q <= questionCounter'[e]
       /\ (lastOp'.op = "question" /\ lastOp'.eng = e) =>
            /\ lastOp'.qid > questionCounter[e]
            /\ lastOp'.qid \notin PendingIds(e)
            /\ pendingQuestions'[e] =
                 Append(pendingQuestions[e],
                        [questionId |-> lastOp'.qid,
                         questionData |-> Msg("question", sessionId[e], NoText, lastOp'.qid)])
       /\ PendingIds(e) \ PendingIds(e)' # {} =>
            /\ lastOp'.op = "answer" /\ lastOp'.eng = e
            /\ PendingIds(e) \ PendingIds(e)' = {lastOp'.qid}
       /\ ~(lastOp'.eng = e /\ lastOp'.op \in {"question", "answer"}) =>
            pendingQuestions'[e] = pendingQuestions[e]]_vars

\* A query has returned and a later one runs while the question asked by the
\* first and one asked by the second are both pending.
C6_Witness ==
  \E e \in Engines :
    /\ lastOp.op = "question" /\ lastOp.eng = e
    /\ Len(pendingQuestions[e]) = 2
    /\ PendingIds(e) = {1, 2}

ErrorSends == SelectSeq(sends, LAMBDA x : x.from \in Engines /\ x.msg.type = "error")

\* C9: however the stream ends, runQuery returns with the engine idle (not
\* running, no active query); a stream that throws makes the engine emit exactly
\* one error event, and no other step emits one.
C9_ErrorOnceThenIdle ==
  /\ \A e \in Engines :
       (lastOp.eng = e /\ lastOp.op \in {"end", "error"}) =>
         /\ ~isRunning[e] /\ ~activeQuery[e]
         /\ pc[e] = "idle" /\ depth[e] = 0
  /\ \A e \in Engines :
       (lastOp.eng = e /\ lastOp.op = "error") =>
         /\ Len(ErrorSends) = 1
         /\ ErrorSends[1].from = e /\ ErrorSends[1].to = ws[e]
  /\ lastOp.op # "error" => ErrorSends = <<>>

\* The stream threw in the middle of a turn; the error event reached the client.
C9_Witness ==
  \E e \in Engines :
    /\ lastOp.op = "error" /\ lastOp.eng = e
    /\ streamingText[e] # NoText
    /\ Len(ErrorSends) = 1 /\ ErrorSends[1].delivered

ChunkEvents == SelectSeq(sends, LAMBDA x : x.msg.type = "tool_result_chunk")
WholeEvents == SelectSeq(sends, LAMBDA x : x.msg.type = "tool_result")

\* The contents of a sequence of events, joined in order.
RECURSIVE JoinText(_)
JoinText(evs) == IF evs = <<>> THEN <<>> ELSE Head(evs).msg.text \o JoinText(Tail(evs))

\* C11: a tool output longer than 500 characters is sent as chunk events with
\* indices 0, 1, 2, ... whose contents joined in order are the output, the last
\* chunk alone carrying the completion flag, and as no whole tool-result event;
\* an output of at most 500 characters is sent as one whole tool-result event and
\* no chunk.  The output is read from the history entry written by the same step.
C11_ChunksReassemble ==
  lastOp.op = "tool_result" =>
    /\ Len(storeCalls) = 1 /\ storeCalls[1].role = "tool_result"
    /\ LET out == storeCalls[1].text IN
         IF Len(out) > CHUNK_THRESHOLD
         THEN /\ WholeEvents = <<>>
              /\ ChunkEvents # <<>>
              /\ \A i \in DOMAIN ChunkEvents :
                   /\ ChunkEvents[i].msg.chunkIndex = i - 1
                   /\ ChunkEvents[i].msg.done <=> (i = Len(ChunkEvents))
              /\ JoinText(ChunkEvents) = out
         ELSE /\ ChunkEvents = <<>>
              /\ Len(WholeEvents) = 1
              /\ WholeEvents[1].msg.text = out

\* An output of exactly three full chunks has been sent.
C11_Witness ==
  /\ lastOp.op = "tool_result"
  /\ Len(ChunkEvents) = 3
  /\ Len(JoinText(ChunkEvents)) = 3 * CHUNK_SIZE
  /\ ChunkEvents[3].msg.done

\* C12 as stated: however often and whenever stopTask is called with a task id,
\* exactly one cancellation request for it has reached the provider.
C12_ExactlyOneRequest ==
  \A e \in Engines :
    (lastOp.op = "stop_task" /\ lastOp.eng = e) => stopRequests[e][lastOp.qid] = 1

\* C12: stopTask calls with the same task id produce at most one cancellation
\* request to the provider: the first call makes the request exactly when the
\* engine holds an active query, every later call is dropped.
C12_AtMostOneRequest ==
  [][\A e \in Engines :
       /\ \A t \in TaskIds : stopRequests'[e][t] <= 1
       /\ (lastOp'.op = "stop_task" /\ lastOp'.eng = e) =>
            LET t == lastOp'.qid IN
              /\ t \in stoppedTasks'[e]
              /\ stopRequests'[e][t] =
                   IF t \in stoppedTasks[e] THEN stopRequests[e][t]
                   ELSE IF activeQuery[e] THEN 1 ELSE 0]_vars

\* A stopTask that came after the query was closed, for a task whose earlier
\* stopTask reached the provider: the repeated call was dropped.
C12_Witness ==
  \E e \in Engines :
    /\ lastOp.op = "stop_task" /\ lastOp.eng = e
    /\ ~activeQuery[e] /\ isRunning[e]
    /\ stopRequests[e][lastOp.qid] = 1

\* C16: the live-output watcher does not outlive the query that started it: once
\* the query loop has exited no watcher is active and no live-output event is
\* emitted.
C16_WatcherEndsWithQuery ==
  \A e \in Engines :
    /\ ~isRunning[e] => ~activeBashStream[e]
    /\ (lastOp.op = "watch" /\ lastOp.eng = e) => isRunning[e]

\* ---- C13
\* C13 as stated: once the instance has run its forking query, no later runQuery
\* on it uses the fork source as its resume target.
C13_LaterRunsAvoidSource ==
  \A e \in Engines :
    (lastOp.op = "prompt_run" /\ lastOp.eng = e /\ forkedOf[e] # NoId /\ ~qFork[e])
      => qResume[e] # forkedOf[e]

\* C13 (amended): setForkSource(id) affects exactly the next runQuery.  That
\* query is started with id as its resume target and with the fork flag, and it
\* clears the fork source; no step but a fork_session on a new instance sets a
\* fork source; every runQuery that finds no fork source runs without the fork
\* flag, against the id its caller passes, else against the instance's own id.
C13_ForkConsumedByNextQuery ==
  [][\A e \in Engines :
       /\ (born[e] /\ forkFrom[e] = NoId) => forkFrom'[e] = NoId
       /\ qFork'[e] => (qResume'[e] = forkedOf'[e] /\ forkFrom'[e] = NoId)
       /\ (lastOp'.op = "prompt_run" /\ lastOp'.eng = e) =>
            /\ forkFrom'[e] = NoId
            /\ qFork'[e] <=> (forkFrom[e] # NoId)
            /\ qResume'[e] =
                 IF forkFrom[e] # NoId THEN forkFrom[e]
                 ELSE IF resumeArg'[e] # NoId THEN resumeArg'[e] ELSE sessionId[e]]_vars

\* A forked instance has started a later query: no fork flag, and the target is
\* the instance's own session id, not the fork source.
C13_Witness ==
  \E e \in Engines :
    /\ lastOp.op = "prompt_run" /\ lastOp.eng = e
    /\ forkedOf[e] # NoId /\ ~qFork[e]
    /\ sessionId[e] # NoId /\ sessionId[e] # forkedOf[e]
    /\ qResume[e] = sessionId[e]

\* ---- C14
\* The steps of an engine's query: its start, its injected prompts, its events.
QueryOps == {"prompt_run", "prompt_inject", "init_event", "delta", "assistant",
             "question", "tool_result", "result", "continue"}

\* C14: while the query that forks from a source session runs, it makes no store
\* call on the source id (no history entry, no record saved or re-pointed): all
\* it persists goes under the session id the provider confirmed for the fork.
C14_ForkKeepsSource ==
  \A e \in Engines :
    (qFork[e] /\ lastOp.eng = e /\ lastOp.op \in QueryOps) =>
      \A i \in DOMAIN storeCalls :
        /\ storeCalls[i].sid # qResume[e]
        /\ storeCalls[i].fn = "remapSession" => storeCalls[i].old # qResume[e]
        /\ storeCalls[i].sid = sessionId[e]

\* ---- C15
SaveCalls == SelectSeq(storeCalls, LAMBDA x : x.fn = "saveSession")
RemapCalls == SelectSeq(storeCalls, LAMBDA x : x.fn = "remapSession")

\* C15 as stated: the init event alone assigns the session id; it saves initial
\* metadata exactly when the query is not a resume, and it re-points the record
\* of a replaced session once, consuming the marker.
C15_SavesUnlessResume ==
  [][\A e \in Engines :
       /\ sessionId'[e] # sessionId[e] => (lastOp'.op = "init_event" /\ lastOp'.eng = e)
       /\ (lastOp'.op = "init_event" /\ lastOp'.eng = e) =>
            /\ (SaveCalls' # <<>>) <=> (resumeArg[e] = NoId)
            /\ replaces[e] # NoId => (Len(RemapCalls') = 1 /\ replaces'[e] = NoId)]_vars

\* C15 (amended): the init event alone assigns the session id.  It saves initial
\* metadata exactly when the query is neither a resume nor the replacement of a
\* cleared session.  With a replacement marker it re-points the store record
\* from the old id to the confirmed id instead, once, and consumes the marker;
\* without a marker it re-points nothing.
C15_SavesUnlessResumeOrReplace ==
  [][\A e \in Engines :
       /\ sessionId'[e] # sessionId[e] => (lastOp'.op = "init_event" /\ lastOp'.eng = e)
       /\ replaces'[e] # replaces[e] =>
            (lastOp'.eng = e /\ lastOp'.op \in {"init_event", "prompt_run"})
       /\ (lastOp'.op = "init_event" /\ lastOp'.eng = e) =>
            /\ sessionId'[e] # NoId
            /\ replaces'[e] = NoId
            /\ Len(SaveCalls') = IF resumeArg[e] = NoId /\ replaces[e] = NoId THEN 1 ELSE 0
            /\ \A i \in DOMAIN SaveCalls' : SaveCalls'[i].sid = sessionId'[e]
            /\ Len(RemapCalls') = IF replaces[e] # NoId THEN 1 ELSE 0
            /\ \A i \in DOMAIN RemapCalls' :
                 /\ RemapCalls'[i].old = replaces[e]
                 /\ RemapCalls'[i].sid = sessionId'[e]
            /\ (replaces[e] # NoId /\ replaces[e] \in sessions) =>
                 sessions' = (sessions \ {replaces[e]}) \cup {sessionId'[e]}]_vars

\* An init event has re-pointed the record of a cleared session to the new id:
\* the old id has no record any more, the new one has, nothing was saved.
C15_Witness ==
  \E e \in Engines :
    /\ lastOp.op = "init_event" /\ lastOp.eng = e
    /\ Len(RemapCalls) = 1 /\ SaveCalls = <<>>
    /\ RemapCalls[1].old # RemapCalls[1].sid
    /\ RemapCalls[1].sid = sessionId[e]
    /\ RemapCalls[1].old \notin sessions /\ sessionId[e] \in sessions
    /\ replaces[e] = NoId

\* ---- C17
\* C17: whenever the tunnel's status is paired a peer key is stored; and a
\* peer_disconnected frame, whatever the state it arrives in, leaves the tunnel
\* waiting_for_peer with no peer key and the virtual transport closed.
C17_PairedHasKey ==
  /\ rStatus = "paired" => rKey # NoKey
  /\ lastOp.op = "peer_disconnected" =>
       (rStatus = "waiting_for_peer" /\ rKey = NoKey /\ ~rVirtOpen)

\* The broker has announced that the peer left, on an open socket.
C17_Witness ==
  /\ lastOp.op = "peer_disconnected" /\ rSock = "open"
  /\ rStatus = "waiting_for_peer" /\ rKey = NoKey /\ ~rVirtOpen /\ ~rHandler

\* ---- C18
AppFrames == SelectSeq(wire, LAMBDA x : x.kind \in {"app", "error"})

C19_AppFramesSealed ==
  \A i \in DOMAIN wire :
    /\ wire[i].kind = "app" => (wire[i].enc /\ rKey # NoKey /\ wire[i].key = rKey)
    /\ ~wire[i].enc => wire[i].kind = "key_exchange_ack"

\* An application frame has gone out through the virtual transport, sealed.
C19_Witness ==
  /\ lastOp.op = "relay_app_send"
  /\ Len(wire) = 1 /\ wire[1].kind = "app" /\ wire[1].enc /\ wire[1].key \in Keys

\* ---- C20
\* The envelope cannot be opened with the stored key: there is no key, it was
\* sealed by another key, or it is corrupted.
Undecryptable(f, key) ==
  f.type = "encrypted" /\ (key = NoKey \/ f.by # key \/ f.seal = "corrupt")

\* C20: an inbound envelope that cannot be decrypted changes nothing: status,
\* peer key, virtual transport, broker socket, reconnect state and connection
\* handler stay as they are, nothing is handed to onMessage, nothing is written,
\* and the socket goes on delivering frames.
C20_UndecryptableDropped ==
  [][(lastOp'.op = "encrypted" /\ Undecryptable(rFrame', rKey)) =>
       /\ UNCHANGED <<rStatus, rKey, rWs, rSock, rVirtOpen, rClosed, rTimers, rTimerDelay,
                 rFails, rAttempt, rDelay,
                      rHandler>>
       /\ inbox' = <<>> /\ wire' = <<>>
       /\ rSock' \in {"open", "closing"}]_vars

\* Envelopes have been dropped: one sealed by another key or corrupted, while
\* paired; one that came before any key exchange, while waiting for the peer.
C20_Witness ==
  /\ lastOp.op = "encrypted" /\ inbox = <<>>
  /\ \/ rStatus = "paired" /\ rKey # NoKey /\ rVirtOpen
        /\ (rFrame.by # rKey \/ rFrame.seal = "corrupt")
     \/ rStatus = "waiting_for_peer" /\ rKey = NoKey /\ rSock = "open"

\* ------------------------------------------------------------------- C21
RECURSIVE Pow2(_)
Pow2(n) == IF n = 0 THEN 1 ELSE 2 * Pow2(n - 1)

Min(a, b) == IF a < b THEN a ELSE b

\* min(1 * 2^(n-1), 30) seconds, in milliseconds.
BackoffOf(n) == Min(InitialDelay * Pow2(n - 1), MaxDelay)

\* C21: the timer armed after the N-th consecutive failure (N counted since the
\* last open event) waits min(2^(N-1), 30) seconds, and an open event puts the
\* delay of the next failure back to one second.
C21_BackoffSchedule ==
  /\ (rTimers > 0 /\ rFails > 0) => rTimerDelay = BackoffOf(rFails)
  /\ lastOp.op = "relay_open" => (rDelay = InitialDelay /\ rFails = 0)
  /\ (lastOp.op \in {"relay_close_event", "relay_connect_failed"} /\ ~rClosed)
       => (rTimers > 0 /\ rFails > 0)

\* The sixth failure in a row: the delay has reached the ceiling.
C21_Witness ==
  rTimers > 0 /\ rFails = 6 /\ rTimerDelay = MaxDelay /\ rDelay = MaxDelay

\* ------------------------------------------------------------------- C22
\* C22: once close() has been called no step makes a connection attempt, no
\* timer is armed afterwards, and the client stays closed.
C22_ClosedStaysQuiet ==
  [][/\ rClosed => (rClosed' /\ rAttempt' = rAttempt /\ rSock' \notin {"connecting", "open"})
     /\ rClosed' => rTimers' = 0]_vars

\* The close event of a socket arrives after close(), or connect() is called
\* after close(): nothing is armed and no socket is made.
C22_Witness ==
  /\ rClosed
  /\ lastOp.op \in {"relay_close_event", "relay_connect_noop"}
  /\ rTimers = 0
  /\ rSock = "none"

\* ------------------------------------------------------------------- C23
\* The last step lost the broker connection or failed to make one.
Loss == lastOp.op \in {"relay_close_event", "relay_error", "relay_connect_failed"}

\* C23: while close() has not been called, a socket close, a socket error or a
\* failed attempt is followed by a new connection attempt, and at most one
\* reconnect timer is armed at any time.
C23_ReconnectsAfterLoss ==
  /\ [](rTimers <= 1)
  /\ \A b \in {0, 1} :
       (Loss /\ ~rClosed /\ rAttempt = b) ~> (rAttempt # b \/ rClosed)

\* A timer armed after a loss has fired and made a new socket.
C23_Witness ==
  ~rClosed /\ lastOp.op = "relay_timer" /\ rFails > 0 /\ rSock = "connecting"

\* ------------------------------------------------------------------- C24
\* The last step received, over the tunnel, an envelope that opened and whose
\* plaintext is not a control message, on a socket the client still holds.
RelayMalformed ==
  /\ lastOp.op = "encrypted"
  /\ rKey # NoKey /\ Decrypts(rFrame, rKey)
  /\ rFrame.body # "json"
  /\ rWs /\ rSock = "open"

\* The last step received, on a direct connection, a text that is not a control
\* message.
DirectMalformed == lastOp.op \in Bodies \ {"json"}

\* C24: every malformed inbound control message, on a direct connection and
\* over the tunnel alike, is answered with an outward error event, and the
\* connection stays open.
C24_MalformedAnswered ==
  /\ DirectMalformed =>
       /\ \E i \in DOMAIN sends :
            sends[i].to = lastOp.conn /\ sends[i].delivered /\ sends[i].msg.type = "error"
       /\ sockOpen[lastOp.conn]
  /\ RelayMalformed =>
       /\ \E i \in DOMAIN wire : wire[i].kind = "error"
       /\ rSock = "open" /\ rVirtOpen

\* ------------------------------------------------------------------- C25
\* decrypt was given the recipient's secret key and the sender's public key.
RecipientKeys == boxWith = <<boxFrom, boxTo>>

Untouched == boxEnv.shape = "ok" /\ boxEnv.intact

\* C25 as stated: every plaintext comes back from decrypt under the recipient's
\* keys; under any other keys decrypt fails, with an error unlike the errors
\* raised for an envelope that is malformed.
C25_RoundTripAnyString ==
  boxPhase = "opened" =>
    /\ (Untouched /\ RecipientKeys) => boxOut = [kind |-> "ok", text |-> boxMsg]
    /\ (Untouched /\ ~RecipientKeys) => boxOut.kind = "decryption_failed"
    /\ boxEnv.shape # "ok" => boxOut.kind \notin {"ok", "decryption_failed"}

\* No unpaired surrogate.
RECURSIVE WellFormed(_)
WellFormed(t) ==
  IF t = <<>> THEN TRUE
  ELSE IF Head(t) = "hi" THEN Len(t) >= 2 /\ t[2] = "lo" /\ WellFormed(Tail(Tail(t)))
  ELSE Head(t) # "lo" /\ WellFormed(Tail(t))

StartsWithBom(t) == t # <<>> /\ Head(t) = "bom"

\* decrypt was given keys that derive the secret the envelope was sealed with.
SameSecret == SharedKey(boxWith[1], boxWith[2]) = SharedKey(boxTo, boxFrom)

\* C25: a plaintext without unpaired surrogates and without a leading byte
\* order mark comes back from decrypt under the recipient's keys (and under
\* their mirror image, the recipient's public and the sender's secret key); any
\* plaintext comes back as its encoding decoded; under keys that derive another
\* secret, or with the ciphertext altered, decrypt throws "Decryption failed",
\* and an envelope with a malformed nonce or without its fields throws another
\* error.
C25_RoundTripWellFormed ==
  boxPhase = "opened" =>
    /\ (Untouched /\ SameSecret) =>
         /\ boxOut = [kind |-> "ok", text |-> Decode(Encode(boxMsg))]
         /\ (WellFormed(boxMsg) /\ ~StartsWithBom(boxMsg)) => boxOut.text = boxMsg
    /\ (boxEnv.shape = "ok" /\ ~(boxEnv.intact /\ SameSecret)) =>
         boxOut.kind = "decryption_failed"
    /\ boxEnv.shape # "ok" => boxOut.kind \notin {"ok", "decryption_failed"}

\* A plaintext with a null character, or one with a surrogate pair, came back
\* intact under the recipient's keys.
C25_Witness ==
  /\ boxPhase = "opened"
  /\ Untouched
  /\ \/ RecipientKeys /\ boxFrom # boxTo /\ boxMsg = <<"hi", "lo">> /\ boxOut.text = boxMsg
     \/ RecipientKeys /\ boxFrom # boxTo /\ boxMsg = <<"nul", "a">> /\ boxOut.text = boxMsg
  /\ boxOut.kind = "ok"

\* ------------------------------------------------------------------- C26
\* C26: the key pair is created at most once and then reused: between resets
\* every run after the first ends up with the pair in the file and writes
\* nothing, and whichever component created the file, it is readable and
\* writable by its owner only.
C26_CreatedOnceOwnerOnly ==
  /\ kfWrites <= kfResets + 1
  /\ \A p \in Components :
       (lastOp.op = "load_keys" /\ lastOp.conn = p) => keyGot[p] = kfPair
  /\ kfPair # 0 => kfMode = "600"

\* ------------------------------------------------------------------- C27
\* C27: a question-asking tool call that reaches the built-in handler emits its
\* question event in the step that suspends it, has no permission decision
\* while it is suspended, and gets one only from resolveQuestion called with
\* its question id: 'allow' with the call's input and exactly the answers
\* supplied.
C27_DecisionOnlyOnAnswer ==
  [][\A e \in Engines :
       /\ pc'[e] = "asking" => decision'[e] = NoDecision
       /\ (lastOp'.op = "question" /\ lastOp'.eng = e) =>
            /\ pc'[e] = "asking" /\ askId'[e] = lastOp'.qid
            /\ lastOp'.qid \in PendingIds(e)'
            /\ Len(sends') = 1
            /\ sends'[1].msg = Msg("question", sessionId[e], NoText, lastOp'.qid)
       /\ (pc[e] = "asking" /\ decision'[e] # NoDecision) =>
            /\ lastOp'.op = "answer" /\ lastOp'.eng = e /\ lastOp'.qid = askId[e]
            /\ decision'[e] =
                 [behavior |-> "allow", input |-> askInput[e], answers |-> lastOp'.arg]
       /\ (pc[e] = "asking" /\ lastOp'.op = "answer" /\ lastOp'.eng = e
             /\ lastOp'.qid = askId[e]) =>
            /\ pc'[e] = "allowed"
            /\ decision'[e].behavior = "allow"
            /\ decision'[e].answers = lastOp'.arg]_vars

\* A suspended call with input in2 was answered "no".
C27_Witness ==
  \E e \in Engines :
    /\ lastOp.op = "answer" /\ lastOp.eng = e
    /\ pc[e] = "allowed"
    /\ decision[e] = [behavior |-> "allow", input |-> "in2", answers |-> "no"]

\* ------------------------------------------------------------------- C28
\* The plugins whose interceptor returned a permission result to the call.
Deciders(res) == {i \in DOMAIN res : res[i] \notin {"absent", "null"}}

\* The plugins with an interceptor among the first k, in list order.
RECURSIVE InOrder(_, _, _)
InOrder(res, i, k) ==
  IF i > k THEN <<>>
  ELSE IF res[i] = "absent" THEN InOrder(res, i + 1, k)
  ELSE <<i>> \o InOrder(res, i + 1, k)

C29_PairedOnlyAfterPeer ==
  [][/\ (rStatus' = "paired" /\ rStatus # "paired") =>
          (lastOp'.op = "key_exchange" /\ rPeer)
     /\ (lastOp'.op = "key_exchange" /\ ~(rPeer /\ rStatus # "paired")) =>
          (rKey' = rKey /\ rStatus' = rStatus)]_vars

\* ------------------------------------------------------------------- C30
\* C30: the live-output watcher started for a shell tool use keeps polling
\* until the result of that same tool use arrives and is stopped by it (or
\* moved by it to the background task's output); the result of another tool
\* use neither stops nor moves it. Stated while the query runs.
C30_WatcherStoppedByOwnResult ==
  [][\A e \in Engines :
       (activeBashStream[e] /\ watchOf[e] # 0 /\ isRunning[e]) =>
         IF lastOp'.op = "tool_result" /\ lastOp'.eng = e /\ lastOp'.qid = watchOf[e]
         THEN ~activeBashStream'[e] \/ lastOp'.arg = "backgrounded"
         ELSE activeBashStream'[e] /\ watchOf'[e] = watchOf[e]]_vars

\* ------------------------------------------------------------------- C31
\* The output the engine's current shell command has written so far.
WatchedOutput(e) == [i \in 1..wrote[e] |-> Byte(e, i)]

\* C31: after every poll of the live-output file, what the watcher has forwarded
\* since it was started is exactly the output written so far by the command
\* it watches: no byte twice, none skipped, none of an earlier command.
C31_ForwardsWatchedOutput ==
  \A e \in Engines :
    (lastOp.op \in {"poll", "poll_idle"} /\ lastOp.eng = e) =>
      forwarded[e] = WatchedOutput(e)

\* ------------------------------------------------------------------- C32
\* C32: whenever the result of a shell tool use carries the moved-to-background
\* signal, afterwards a watcher is active on the new output file and the
\* provider's background id is mapped to that tool use; and a stopTask call
\* that reaches the provider for a mapped tool-use id is given the provider's id.
C32_BackgroundTracked ==
  [][\A e \in Engines :
       /\ (/\ lastOp'.op = "tool_result" /\ lastOp'.eng = e
           /\ lastOp'.arg \in {"backgrounded", "signal"}
           /\ lastOp'.qid \in DOMAIN useTools[e]
           /\ useTools[e][lastOp'.qid] = "Bash")
          => /\ activeBashStream'[e] /\ watchPath'[e] = "out"
             /\ <<BgIdOf(lastOp'.qid), lastOp'.qid>> \in taskIdToToolUseId'[e]
       /\ \A t \in TaskIds :
            (/\ stopRequests'[e][t] > stopRequests[e][t]
             /\ <<BgIdOf(t), t>> \in taskIdToToolUseId[e])
            => sdkTaskId'[e] = BgIdOf(t)]_vars

\* ------------------------------------------------------------------- C33
\* The position of the last message_start event in h, 0 if there is none.
LastStart(h) ==
  IF \E i \in DOMAIN h : h[i].type = "message_start"
  THEN CHOOSE i \in DOMAIN h :
         /\ h[i].type = "message_start"
         /\ \A j \in DOMAIN h : h[j].type = "message_start" => j <= i
  ELSE 0

\* The output count of the last message_delta event of h after position k,
\* 0 if there is none.
LastOutputAfter(h, k) ==
  IF \E i \in DOMAIN h : i > k /\ h[i].type = "message_delta"
  THEN h[CHOOSE i \in DOMAIN h :
           /\ i > k /\ h[i].type = "message_delta"
           /\ \A j \in DOMAIN h : (j > k /\ h[j].type = "message_delta") => j <= i].output
  ELSE 0

C34_OneQueryPerSession ==
  \A e \in Engines, f \in Engines :
    (e # f /\ isRunning[e] /\ isRunning[f] /\ sessionId[e] # NoId) =>
      sessionId[e] # sessionId[f]

\* ------------------------------------------------------------------- C35
\* C35: the registry holds a session only while its query runs: every
\* registered instance is running and is registered under its confirmed id.
C35_RegisteredOnlyWhileRunning ==
  \A sid \in SessionIds :
    activeSessions[sid] # NoEngine =>
      /\ isRunning[activeSessions[sid]]
      /\ sessionId[activeSessions[sid]] = sid

\* ------------------------------------------------------------------- C36
\* C36: the query that consumes the cleared marker of a session id is started
\* as a fresh conversation: unless it forks, it has no resume target.
C36_ClearedStartsFresh ==
  [][\A e \in Engines :
       (/\ lastOp'.op = "prompt_run" /\ lastOp'.eng = e
        /\ cleared' # cleared
        /\ ~ShouldFork(e))
       => qResume'[e] = NoId]_vars

\* ------------------------------------------------------------------- C37
\* The handler steps by which a connection switches to another session.
SwitchOps ==
  {"new_session", "resume_new", "resume_attach", "resume_missing",
   "fork_session", "fork_missing"}

\* C37: when a connection switches to another session, a running session that
\* delivers to a different connection's transport keeps delivering to it
\* (unless it is the session the connection switches to).
C37_SwitchLeavesOtherTransport ==
  [][\A c \in Conns, e \in Engines :
       (/\ lastOp'.op \in SwitchOps /\ lastOp'.conn = c
        /\ isRunning[e]
        /\ ws[e] \in Conns \ {c}
        /\ e # activeSession'[c])
       => ws'[e] = ws[e]]_vars

\* ------------------------------------------------------------------- C38
\* C38: once close() has been called the tunnel's status is disconnected in
\* every state, and a virtual transport that is not open does not open.
C38_ClosedStaysDisconnected ==
  [][rClosed' =>
       /\ rStatus' = "disconnected"
       /\ (rClosed /\ ~rVirtOpen) => ~rVirtOpen']_vars

\* ------------------------------------------------------------------- C39
\* C39: whenever the virtual transport reports open, the tunnel's status is
\* paired and a peer public key is stored.
C39_OpenMeansPaired ==
  rVirtOpen => (rStatus = "paired" /\ rKey # NoKey)

\* C40: the answer that wakes an intercepted plan-approval call gives an allow
\* decision only if it is the Approve option; the Reject option, any typed
\* text and an empty answer map give a deny decision.
C40_PlanAllowedOnlyOnApprove ==
  [][\A e \in Engines :
       (/\ lastOp'.op = "answer" /\ lastOp'.eng = e
        /\ curTool[e] = "plan" /\ ResolveWakes(e, lastOp'.qid))
       => /\ decision'[e].behavior \in {"allow", "deny"}
          /\ decision'[e].behavior = "allow" <=> AnswerValues(lastOp'.arg) = <<Approve>>]_vars

====
